---- MODULE Spec2Model ----
(***************************************************************************)
(* The analytics engine of src/api/routes/analysis.py: trend analysis,     *)
(* Pearson correlation, linear forecasting and multi-repository ranking,   *)
(* together with the route handlers that call them.                        *)
(*                                                                         *)
(* Representation.                                                         *)
(*   - A metric series is a Python dict: a sequence of points              *)
(*     [period, value] in INSERTION order with distinct periods.           *)
(*   - A period "YYYY-MM" is the integer YYYY*100+MM; for four-digit years *)
(*     and zero-padded months the order of these integers is the           *)
(*     lexicographic order of the labels, which is what sorted() and max() *)
(*     use in the source.                                                  *)
(*   - Metric values are integers.  A float the code produces is kept      *)
(*     exactly: an unrounded mean is a reduced fraction <<num, den>>, and  *)
(*     a value the code passes through round(x, d) is the integer          *)
(*     round(x * 10^d) (hundredths for d = 2, ten-thousandths for d = 4).  *)
(*     Roundings are computed on the exact real value, ties to even, as    *)
(*     Python's round() does on the value it is given.                     *)
(***************************************************************************)
EXTENDS Integers, Sequences, FiniteSets, TLC

VARIABLES
    op,               \* the handler or function that has run ("idle": none yet)
    trend_data,       \* analyze_trend: the fetched series data[metric]
    trend_result,     \* what analyze_trend_data(trend_data, metric) returned
    trend_response,   \* what the /trend route answered
    corr_data,        \* analyze_correlation: the fetched data, metric1 and metric2
    correlation,      \* what calculate_correlation(values1, values2) returned
    corr_response,    \* what the /correlation route answered
    compare_request,  \* compare_repositories: the repositories asked for and
                      \* what the client does on each call of get_repo_metrics
    compare_response, \* what the /compare route answered
    predict_request,  \* predict_metric: the fetched history and the periods asked for
    prediction,       \* what predict_linear_trend(values, periods) returned
    predict_response, \* what the /predict route answered
    core_request,     \* get_repo_core_data: owner, repo and what each HTTP GET does
    core_data,        \* what CoreDataFetcher.get_repo_core_data returned
    calls,            \* concurrent analyzer calls: function, position and result
    frames            \* the local variables of the calls

trendVars == <<trend_data, trend_result, trend_response>>

corrVars == <<corr_data, correlation, corr_response>>

compareVars == <<compare_request, compare_response>>

predictVars == <<predict_request, prediction, predict_response>>

coreVars == <<core_request, core_data>>

callVars == <<calls, frames>>

vars == <<op, trendVars, corrVars, compareVars, predictVars, coreVars, callVars>>

(***************************************************************************)
(* Bounds of the model.                                                    *)
(***************************************************************************)
\* number of distinct monthly periods a bounded series may carry
NumPeriods == 4
\* number of repositories a bounded comparison request may name
MaxRepos == 2
\* a bounded history has up to MinHistoryPoints + ExtraHistory points
ExtraHistory == 1
\* a bounded correlation coefficient lies within +-MaxCorrelation
\* ten-thousandths (calculate_correlation returns at most 2.0 in magnitude)
MaxCorrelation == 20000
\* stand-in for the largest finite float (sys.float_info.max, about 1.8e308),
\* scaled down so that quantities beyond it fit the model's integers
FloatMax == 1000000
\* number of analyzer calls that may run concurrently
NumCalls == 2

(***************************************************************************)
(* Program constants.                                                      *)
(***************************************************************************)
\* analysis.py:364  window_size = min(3, len(values))
MovingAverageWindow == 3
\* analysis.py:352/356  change_pct > 5, change_pct < -5
StrongChangePct == 5
\* analysis.py:331  len(values) < 2
MinTrendPoints == 2
\* analysis.py:182  len(common_dates) < 3
MinCommonDates == 3
\* analysis.py:405  len(values1) < 2
MinCorrelationPoints == 2
\* analysis.py:37  len(repositories) > 10
MaxRepositories == 10
\* analysis.py:222  min(request_data.get('periods', 3), 12)
MaxPredictPeriods == 12
\* analysis.py:243  len(historical_data) < 6
MinHistoryPoints == 6
\* analysis.py:468  n < 2
MinRegressionPoints == 2

(***************************************************************************)
(* Integer helpers for exact arithmetic.                                   *)
(***************************************************************************)
Abs(a) == IF a < 0 THEN -a ELSE a

Sign(a) == IF a < 0 THEN -1 ELSE IF a > 0 THEN 1 ELSE 0

Min2(a, b) == IF a <= b THEN a ELSE b

Max2(a, b) == IF a >= b THEN a ELSE b

RECURSIVE Gcd(_, _)
Gcd(a, b) == IF b = 0 THEN Abs(a) ELSE Gcd(b, a % Abs(b))

\* the reduced fraction num/den (den > 0) as a pair
Frac(num, den) ==
    LET g == Gcd(num, den)
    IN  IF g = 0 THEN <<0, 1>> ELSE <<num \div g, den \div g>>

\* round(a / b) for b > 0, ties to the even integer
RoundDiv(a, b) ==
    LET q == a \div b
        r == a % b
    IN  IF 2 * r < b THEN q
        ELSE IF 2 * r > b THEN q + 1
        ELSE IF q % 2 = 0 THEN q ELSE q + 1

\* floor of the square root of p >= 0
RECURSIVE ISqrtIn(_, _, _)
ISqrtIn(p, lo, hi) ==
    IF lo >= hi THEN lo
    ELSE LET mid == (lo + hi + 1) \div 2
         IN  IF mid * mid <= p THEN ISqrtIn(p, mid, hi) ELSE ISqrtIn(p, lo, mid - 1)

ISqrt(p) == ISqrtIn(p, 0, Min2(p, 46340))

(***************************************************************************)
(* SqrtCmp(p, f, a, b, less): for p >= 0, f = ISqrt(p), b > 0              *)
(*   less = TRUE :  sqrt(p) < a/b                                          *)
(*   less = FALSE:  sqrt(p) > a/b                                          *)
(* decided exactly by the continued-fraction expansion of sqrt(p), so that *)
(* no product leaves the 32-bit range the way squaring both sides would.   *)
(***************************************************************************)
RECURSIVE SqrtCmp(_, _, _, _, _)
SqrtCmp(p, f, a, b, less) ==
    LET q == a \div b
        r == a % b
        e == p - f * f
    IN  IF q > f THEN less
        ELSE IF q < f THEN ~less
        ELSE IF less
             THEN IF r = 0 THEN FALSE
                  ELSE IF e = 0 THEN TRUE
                  ELSE SqrtCmp(p, f, e * b - f * r, r, FALSE)
             ELSE IF e = 0 THEN FALSE
                  ELSE IF r = 0 THEN TRUE
                  ELSE SqrtCmp(p, f, e * b - f * r, r, TRUE)

\* the largest k in lo..hi with (2k-1)/2 <= c * sqrt(p) / d, i.e. the
\* nearest integer to c*sqrt(p)/d (c, d > 0, sqrt(p) irrational: no ties)
RECURSIVE RoundMulSqrtIn(_, _, _, _, _, _)
RoundMulSqrtIn(p, f, c, d, lo, hi) ==
    IF lo >= hi THEN lo
    ELSE LET mid == (lo + hi + 1) \div 2
         IN  IF SqrtCmp(p, f, (2 * mid - 1) * d, 2 * c, TRUE)
             THEN RoundMulSqrtIn(p, f, c, d, lo, mid - 1)
             ELSE RoundMulSqrtIn(p, f, c, d, mid, hi)

\* round(c * sqrt(p) / d) for p >= 0, c > 0, d > 0
RoundMulSqrt(p, c, d) ==
    LET f == ISqrt(p)
    IN  IF f * f = p THEN RoundDiv(c * f, d)
        ELSE RoundMulSqrtIn(p, f, c, d, 0, (c * (f + 1)) \div d + 1)

\* the largest k in lo..hi with (2k-1)/2 <= c / (d * sqrt(p)), p > 0
RECURSIVE RoundDivSqrtIn(_, _, _, _, _, _)
RoundDivSqrtIn(p, f, c, d, lo, hi) ==
    IF lo >= hi THEN lo
    ELSE LET mid == (lo + hi + 1) \div 2
         IN  IF SqrtCmp(p, f, 2 * c, (2 * mid - 1) * d, FALSE)
             THEN RoundDivSqrtIn(p, f, c, d, lo, mid - 1)
             ELSE RoundDivSqrtIn(p, f, c, d, mid, hi)

\* round(c / (d * sqrt(p))) for p > 0, c >= 0, d > 0
RoundDivSqrt(p, c, d) ==
    LET f == ISqrt(p)
    IN  IF f * f = p THEN RoundDiv(c, d * f)
        ELSE RoundDivSqrtIn(p, f, c, d, 0, c \div (d * f) + 1)

(***************************************************************************)
(* Python built-ins on lists and dicts.                                    *)
(***************************************************************************)
RECURSIVE Sum(_)
Sum(xs) == IF xs = <<>> THEN 0 ELSE Head(xs) + Sum(Tail(xs))

RECURSIVE SumSq(_)
SumSq(xs) == IF xs = <<>> THEN 0 ELSE Head(xs) * Head(xs) + SumSq(Tail(xs))

RECURSIVE MaxOf(_)
MaxOf(xs) == IF Len(xs) = 1 THEN xs[1] ELSE Max2(Head(xs), MaxOf(Tail(xs)))

RECURSIVE MinOf(_)
MinOf(xs) == IF Len(xs) = 1 THEN xs[1] ELSE Min2(Head(xs), MinOf(Tail(xs)))

\* xs[i:j] with Python's 0-based half-open bounds
Slice(xs, i, j) == SubSeq(xs, i + 1, Min2(j, Len(xs)))

\* d.keys(), d.values(): insertion order
Keys(d) == [i \in 1..Len(d) |-> d[i].period]

Values(d) == [i \in 1..Len(d) |-> d[i].value]

KeySet(d) == {d[i].period : i \in 1..Len(d)}

\* d[key]
Get(d, key) == d[CHOOSE i \in 1..Len(d) : d[i].period = key].value

\* sorted(s) for a set of periods: ascending sequence
RECURSIVE SortedSet(_)
SortedSet(s) ==
    IF s = {} THEN <<>>
    ELSE LET m == CHOOSE x \in s : \A y \in s : x <= y
         IN  <<m>> \o SortedSet(s \ {m})

\* sorted(d.keys())
Sorted(ks) == SortedSet({ks[i] : i \in 1..Len(ks)})

(***************************************************************************)
(* The statistics module.                                                  *)
(***************************************************************************)
\* statistics.mean(xs) of integers, exact
Mean(xs) == Frac(Sum(xs), Len(xs))

\* n*Sum(x^2) - Sum(x)^2 = n*(n-1)*variance(xs), an integer
VarNum(xs) == Len(xs) * SumSq(xs) - Sum(xs) * Sum(xs)

\* round(scale * statistics.stdev(xs / den)) for len(xs) >= 2: the sample
\* standard deviation of the rationals xs[i]/den, den > 0
StdevScaled(xs, den, scale) ==
    LET n == Len(xs)
        k == n * (n - 1)
    IN  RoundMulSqrt(VarNum(xs) * k, scale, k * den)

\* a < b for fractions with positive denominators
FracLess(a, b) == a[1] * b[2] < b[1] * a[2]

(***************************************************************************)
(* calculate_volatility(values): round(stdev(returns), 4) in               *)
(* ten-thousandths, the returns being (v[i] - v[i-1]) / v[i-1] over the    *)
(* steps with v[i-1] # 0.                                                  *)
(***************************************************************************)
\* the steps i (1-based position of the prior value) the loop keeps
ReturnSteps(values) == SelectSeq([i \in 1..(Len(values) - 1) |-> i], LAMBDA i : values[i] # 0)

RECURSIVE Lcm(_)
Lcm(xs) ==
    IF xs = <<>> THEN 1
    ELSE LET l == Lcm(Tail(xs))
             h == Abs(Head(xs))
         IN  (h \div Gcd(h, l)) * l

\* calculate_volatility without the guard values[i-1] != 0: the division by
\* a zero prior value fails (outcome -1)
calculate_volatility_ZeroPriorFails(values) ==
    IF Len(values) < 2 THEN 0
    ELSE IF \E i \in 1..(Len(values) - 1) : values[i] = 0 THEN -1
    ELSE LET steps == [i \in 1..(Len(values) - 1) |-> i]
             den   == Lcm([j \in 1..Len(steps) |-> values[steps[j]]])
             returns == [j \in 1..Len(steps) |->
                            (values[steps[j] + 1] - values[steps[j]])
                                * (den \div Abs(values[steps[j]]))
                                * Sign(values[steps[j]])]
         IN  IF Len(steps) > 1 THEN StdevScaled(returns, den, 10000) ELSE 0

\* calculate_volatility counting a step with a zero prior value as a zero
\* return instead of skipping it
calculate_volatility_ZeroReturn(values) ==
    IF Len(values) < 2 THEN 0
    ELSE LET steps == ReturnSteps(values)
             den   == Lcm([j \in 1..Len(steps) |-> values[steps[j]]])
             returns == [i \in 1..(Len(values) - 1) |->
                            IF values[i] = 0 THEN 0
                            ELSE (values[i + 1] - values[i])
                                     * (den \div Abs(values[i])) * Sign(values[i])]
         IN  IF Len(returns) > 1 THEN StdevScaled(returns, den, 10000) ELSE 0

calculate_volatility(values) ==
    IF Len(values) < 2 THEN 0
    ELSE LET steps == ReturnSteps(values)
             \* common denominator of the returns, and their numerators over it
             den   == Lcm([j \in 1..Len(steps) |-> values[steps[j]]])
             returns == [j \in 1..Len(steps) |->
                            (values[steps[j] + 1] - values[steps[j]])
                                * (den \div Abs(values[steps[j]]))
                                * Sign(values[steps[j]])]
         IN  IF Len(steps) > 0
             THEN IF Len(steps) > 1 THEN StdevScaled(returns, den, 10000) ELSE 0
             ELSE 0

(***************************************************************************)
(* analyze_trend_data(trend_data, metric)                                  *)
(***************************************************************************)
EmptyResult == [kind |-> "empty"]

\* an exception leaves the call (OverflowError out of a float conversion)
Raised == [kind |-> "raised"]

\* a / b on integers, b # 0: Python raises OverflowError ("integer division
\* result too large for a float") when |a / b| is beyond the float range
TrueDivOverflows(a, b) ==
    LET q == Abs(a) \div Abs(b)
    IN  q > FloatMax \/ (q = FloatMax /\ Abs(a) % Abs(b) # 0)

\* statistics.mean(xs) on integers returns the int when the mean is
\* integral, otherwise converts the exact fraction to float, which raises
\* OverflowError beyond the float range
MeanRaises(xs) == Sum(xs) % Len(xs) # 0 /\ TrueDivOverflows(Sum(xs), Len(xs))

\* statistics.stdev(xs) on integers, Len(xs) >= 2: the square root of the
\* exact variance is converted to float, which raises OverflowError when it
\* is beyond the float range.  One value at least n * FloatMax away from the
\* mean suffices; otherwise the exact variance is compared.
StdevRaises(xs) ==
    LET n == Len(xs)
        k == n * (n - 1)
    IN  \/ \E i \in 1..n : Abs(n * xs[i] - Sum(xs)) >= n * n * FloatMax
        \/ LET v == VarNum(xs)
           IN  \/ v \div FloatMax > FloatMax * k
               \/ v \div FloatMax = FloatMax * k /\ v % FloatMax # 0

\* calculate_volatility: the division of analysis.py:456 on each kept step
VolatilityRaises(values) ==
    \E i \in 1..(Len(values) - 1) :
        values[i] # 0 /\ TrueDivOverflows(values[i + 1] - values[i], values[i])

\* the operations of analyze_trend_data that raise on values of two or
\* more points: the mean (338), the division of change_pct (347), the means
\* of the windows (369), the standard deviation (386) and the volatility
\* (393)
TrendRaises(values) ==
    LET window_size == Min2(MovingAverageWindow, Len(values))
    IN  \/ MeanRaises(values)
        \/ values[1] # 0 /\ TrueDivOverflows(values[Len(values)] - values[1], values[1])
        \/ \E i \in 1..(Len(values) - window_size + 1) :
              MeanRaises(Slice(values, i - 1, i - 1 + window_size))
        \/ StdevRaises(values)
        \/ VolatilityRaises(values)

InsufficientData(msg) == [kind |-> "insufficient_data", status |-> "insufficient_data", message |-> msg]

\* ChangePct dividing by first_value instead of abs(first_value)
ChangePct_SignedDenominator(first_value, last_value) ==
    IF first_value # 0
    THEN Frac((last_value - first_value) * 100 * Sign(first_value), Abs(first_value))
    ELSE <<0, 1>>

\* change_pct as an exact fraction
ChangePct(first_value, last_value) ==
    IF first_value # 0
    THEN Frac((last_value - first_value) * 100, Abs(first_value))
    ELSE <<0, 1>>

\* TrendDirection taken from the percentage change rounded to 2 decimals
TrendDirection_OfRounded(change_pct) ==
    LET reported == RoundDiv(100 * change_pct[1], change_pct[2])
    IN  IF reported > 100 * StrongChangePct THEN "strong_increase"
        ELSE IF reported > 0 THEN "slight_increase"
        ELSE IF reported < (-100) * StrongChangePct THEN "strong_decrease"
        ELSE IF reported < 0 THEN "slight_decrease"
        ELSE "stable"

\* TrendDirection with the thresholds compared by >= 5 and <= -5
TrendDirection_Inclusive(change_pct) ==
    IF change_pct[1] >= StrongChangePct * change_pct[2] THEN "strong_increase"
    ELSE IF change_pct[1] > 0 THEN "slight_increase"
    ELSE IF change_pct[1] <= (-StrongChangePct) * change_pct[2] THEN "strong_decrease"
    ELSE IF change_pct[1] < 0 THEN "slight_decrease"
    ELSE "stable"

TrendDirection(change_pct) ==
    IF change_pct[1] > StrongChangePct * change_pct[2] THEN "strong_increase"
    ELSE IF change_pct[1] > 0 THEN "slight_increase"
    ELSE IF change_pct[1] < (-StrongChangePct) * change_pct[2] THEN "strong_decrease"
    ELSE IF change_pct[1] < 0 THEN "slight_decrease"
    ELSE "stable"

\* moving_avg: the means of the windows values[i:i+window_size]
MovingAvg(values, window_size) ==
    [i \in 1..(Len(values) - window_size + 1) |->
        Mean(Slice(values, i - 1, i - 1 + window_size))]

\* MaTrend comparing with >= (a tie counts as increasing)
MaTrend_TieIncreasing(values) ==
    LET window_size == Min2(MovingAverageWindow, Len(values))
    IN  IF window_size > 1
        THEN LET moving_avg == MovingAvg(values, window_size)
             IN  IF Len(moving_avg) >= 2
                 THEN IF ~FracLess(moving_avg[Len(moving_avg)], moving_avg[1])
                      THEN "increasing" ELSE "decreasing"
                 ELSE "unknown"
        ELSE "unknown"

MaTrend(values) ==
    LET window_size == Min2(MovingAverageWindow, Len(values))
    IN  IF window_size > 1
        THEN LET moving_avg == MovingAvg(values, window_size)
             IN  IF Len(moving_avg) >= 2
                 THEN IF FracLess(moving_avg[1], moving_avg[Len(moving_avg)])
                      THEN "increasing" ELSE "decreasing"
                 ELSE "unknown"
        ELSE "unknown"

\* TrendDates without the sort: the keys in insertion order
TrendDates_Unsorted(data) == Keys(data)

\* the dates the analysis works on: sorted(trend_data.keys())
TrendDates(data) == Sorted(Keys(data))

analyze_trend_data(data) ==
    IF data = <<>> THEN EmptyResult
    ELSE LET dates  == TrendDates(data)
             values == [i \in 1..Len(dates) |-> Get(data, dates[i])]
         IN  IF Len(values) < MinTrendPoints
             THEN InsufficientData("Need at least 2 data points for trend analysis")
             ELSE IF TrendRaises(values) THEN Raised
             ELSE LET max_value   == MaxOf(values)
                      min_value   == MinOf(values)
                      first_value == values[1]
                      last_value  == values[Len(values)]
                      change_pct  == ChangePct(first_value, last_value)
                  IN  [kind |-> "trend",
                       statistics |->
                          [average       |-> RoundDiv(100 * Sum(values), Len(values)),
                           maximum       |-> max_value,
                           minimum       |-> min_value,
                           range         |-> max_value - min_value,
                           std_deviation |-> StdevScaled(values, 1, 100)],
                       trend |->
                          [direction            |-> TrendDirection(change_pct),
                           percentage_change    |-> RoundDiv(100 * change_pct[1], change_pct[2]),
                           absolute_change      |-> last_value - first_value,
                           moving_average_trend |-> MaTrend(values),
                           volatility           |-> calculate_volatility(values)],
                       periods |->
                          [total           |-> Len(values),
                           start_date      |-> dates[1],
                           end_date        |-> dates[Len(dates)],
                           duration_months |-> Len(dates)]]

(***************************************************************************)
(* The /trend route around it (analysis.py:93-143): the fetched series is  *)
(* rejected with 404 when it is empty, otherwise analysed.                 *)
(***************************************************************************)
ErrorResponse(msg, code) == [kind |-> "error", message |-> msg, code |-> code]

analyze_trend(data) ==
    IF data = <<>> THEN ErrorResponse("No data available for trend analysis", 404)
    ELSE LET analysis == analyze_trend_data(data)
         IN  IF analysis = Raised
             THEN ErrorResponse("Failed to analyze trend", 500)
             ELSE [kind |-> "success", data |-> data, analysis |-> analysis]

(***************************************************************************)
(* calculate_correlation(values1, values2), in ten-thousandths.            *)
(*                                                                         *)
(* With n = len(values1), Sx = sum(x), Sxy = sum(x*y):                     *)
(*   covariance = sum((x - mean1) * (y - mean2)) = (n*Sxy - Sx*Sy) / n     *)
(*   stdev(v)   = sqrt(VarNum(v) / (n * (n-1)))                            *)
(*   std1, std2 = stdev(v) * (n-1) / n                                     *)
(*   std1 * std2 * n = sqrt(VarNum(x) * VarNum(y)) * (n-1) / n^2           *)
(* so covariance / (std1 * std2 * n)                                       *)
(*              = (n*Sxy - Sx*Sy) * n / ((n-1) * sqrt(VarNum(x)*VarNum(y))) *)
(***************************************************************************)
SumProd(xs, ys) == Sum([i \in 1..Len(xs) |-> xs[i] * ys[i]])

\* n * covariance
CovNum(xs, ys) == Len(xs) * SumProd(xs, ys) - Sum(xs) * Sum(ys)

\* calculate_correlation taking a zero standard deviation for a perfect
\* correlation instead of none
calculate_correlation_ConstantIsPerfect(values1, values2) ==
    IF Len(values1) # Len(values2) \/ Len(values1) < MinCorrelationPoints THEN 0
    ELSE LET n    == Len(values1)
             cov  == CovNum(values1, values2)
             var2 == VarNum(values1) * VarNum(values2)
         IN  IF var2 = 0 THEN 10000
             ELSE Sign(cov) * RoundDivSqrt(var2, 10000 * Abs(cov) * n, n - 1)

calculate_correlation(values1, values2) ==
    IF Len(values1) # Len(values2) \/ Len(values1) < MinCorrelationPoints THEN 0
    ELSE LET n    == Len(values1)
             cov  == CovNum(values1, values2)
             \* (std1 * std2)^2, up to the positive factor ((n-1)/n^3)^2
             var2 == VarNum(values1) * VarNum(values2)
         IN  IF var2 = 0 THEN 0
             ELSE Sign(cov) * RoundDivSqrt(var2, 10000 * Abs(cov) * n, n - 1)

\* interpret_correlation with the thresholds compared by >=
interpret_correlation_Inclusive(r) ==
    IF r >= 7000 THEN "Strong positive correlation"
    ELSE IF r >= 3000 THEN "Moderate positive correlation"
    ELSE IF r >= 1000 THEN "Weak positive correlation"
    ELSE IF r >= -1000 THEN "No significant correlation"
    ELSE IF r >= -3000 THEN "Weak negative correlation"
    ELSE IF r >= -7000 THEN "Moderate negative correlation"
    ELSE "Strong negative correlation"

interpret_correlation(r) ==
    IF r > 7000 THEN "Strong positive correlation"
    ELSE IF r > 3000 THEN "Moderate positive correlation"
    ELSE IF r > 1000 THEN "Weak positive correlation"
    ELSE IF r > -1000 THEN "No significant correlation"
    ELSE IF r > -3000 THEN "Weak negative correlation"
    ELSE IF r > -7000 THEN "Moderate negative correlation"
    ELSE "Strong negative correlation"

(***************************************************************************)
(* The /correlation route (analysis.py:145-207).  data is what the client  *)
(* returned: for each of the two metrics, whether it is present and, if    *)
(* so, its series.                                                         *)
(***************************************************************************)
\* common_dates = set(metric1_data.keys()) & set(metric2_data.keys())
CommonDates(metric1_data, metric2_data) == KeySet(metric1_data) \cap KeySet(metric2_data)

\* AlignedValues without the sort: the common dates in the insertion order
\* of metric_data
AlignedValues_InsertionOrder(metric_data, common_dates) ==
    Values(SelectSeq(metric_data, LAMBDA pt : pt.period \in common_dates))

\* [metric_data[date] for date in sorted(common_dates)]
AlignedValues(metric_data, common_dates) ==
    LET dates == SortedSet(common_dates)
    IN  [i \in 1..Len(dates) |-> Get(metric_data, dates[i])]

\* analyze_correlation asking for 2 common dates instead of 3
analyze_correlation_MinTwo(data) ==
    IF ~data.metric1.present \/ ~data.metric2.present
    THEN ErrorResponse("Data not available for correlation analysis", 404)
    ELSE LET metric1_data == data.metric1.series
             metric2_data == data.metric2.series
             common_dates == CommonDates(metric1_data, metric2_data)
         IN  IF Cardinality(common_dates) < 2
             THEN ErrorResponse("Insufficient data for correlation analysis", 400)
             ELSE LET values1 == AlignedValues(metric1_data, common_dates)
                      values2 == AlignedValues(metric2_data, common_dates)
                      r       == calculate_correlation(values1, values2)
                  IN  [kind           |-> "success",
                       data_points    |-> Cardinality(common_dates),
                       correlation    |-> r,
                       interpretation |-> interpret_correlation(r)]

analyze_correlation(data) ==
    IF ~data.metric1.present \/ ~data.metric2.present
    THEN ErrorResponse("Data not available for correlation analysis", 404)
    ELSE LET metric1_data == data.metric1.series
             metric2_data == data.metric2.series
             common_dates == CommonDates(metric1_data, metric2_data)
         IN  IF Cardinality(common_dates) < MinCommonDates
             THEN ErrorResponse("Insufficient data for correlation analysis", 400)
             ELSE LET values1 == AlignedValues(metric1_data, common_dates)
                      values2 == AlignedValues(metric2_data, common_dates)
                      r       == calculate_correlation(values1, values2)
                  IN  [kind           |-> "success",
                       data_points    |-> Cardinality(common_dates),
                       correlation    |-> r,
                       interpretation |-> interpret_correlation(r)]

(***************************************************************************)
(* analyze_comparison(data, metrics).                                      *)
(*                                                                         *)
(* data (comparison_data) is a Python dict from repository to what was     *)
(* fetched for it: a sequence of entries [repo, data] in insertion order.  *)
(* A fetched value is a record                                             *)
(*   [has_error, error, metrics]                                           *)
(* where has_error says that the dict has an 'error' key (with the string  *)
(* error), and metrics[m] says for each metric name whether the dict has   *)
(* that key and, if so, its series.                                        *)
(***************************************************************************)
Absent == [present |-> FALSE, series |-> <<>>]

Present(series) == [present |-> TRUE, series |-> series]

\* repo_data.get('error'), as a truth value
GetError(repo_data) == repo_data.has_error /\ repo_data.error # ""

\* the per-repository figures of one metric (analysis.py:288-296)
MetricValues(values) ==
    [current |-> values[Len(values)],
     average |-> IF Len(values) > 1 THEN Mean(values) ELSE <<values[1], 1>>,
     max     |-> MaxOf(values),
     min     |-> MinOf(values),
     trend   |-> IF Len(values) > 1 /\ values[Len(values)] > values[1]
                 THEN "increasing" ELSE "decreasing"]

\* the values the figures are computed from: list(metric_data.values())
ComparisonValues(metric_data) == Values(metric_data)

\* metric_values: the entries [repo, values] of the repositories that
\* qualify, in the order of data
RECURSIVE CollectMetricValues(_, _)
CollectMetricValues(data, metric) ==
    IF data = <<>> THEN <<>>
    ELSE LET repo      == Head(data).repo
             repo_data == Head(data).data
             rest      == CollectMetricValues(Tail(data), metric)
         IN  IF ~GetError(repo_data) /\ repo_data.metrics[metric].present
                   /\ repo_data.metrics[metric].series # <<>>
             THEN <<[repo |-> repo,
                     values |-> MetricValues(ComparisonValues(repo_data.metrics[metric].series))]>>
                  \o rest
             ELSE rest

\* SortedByCurrentDesc as an ascending sort that is then reversed: equal
\* keys come out in reverse order
RECURSIVE SortedByCurrentDesc_AscReversed(_)
SortedByCurrentDesc_AscReversed(items) ==
    IF items = <<>> THEN <<>>
    ELSE LET top == CHOOSE i \in 1..Len(items) :
                        /\ \A j \in 1..Len(items) :
                              items[j].values.current <= items[i].values.current
                        /\ \A j \in (i + 1)..Len(items) :
                              items[j].values.current < items[i].values.current
         IN  <<items[top]>> \o
             SortedByCurrentDesc_AscReversed(
                 SubSeq(items, 1, top - 1) \o SubSeq(items, top + 1, Len(items)))

\* sorted(items, key=current, reverse=True): descending, and stable (equal
\* keys keep their order)
RECURSIVE SortedByCurrentDesc(_)
SortedByCurrentDesc(items) ==
    IF items = <<>> THEN <<>>
    ELSE LET top == CHOOSE i \in 1..Len(items) :
                        /\ \A j \in 1..Len(items) :
                              items[j].values.current <= items[i].values.current
                        /\ \A j \in 1..(i - 1) :
                              items[j].values.current < items[i].values.current
         IN  <<items[top]>> \o
             SortedByCurrentDesc(SubSeq(items, 1, top - 1) \o SubSeq(items, top + 1, Len(items)))

\* MetricAnalysis averaging the repositories' average values instead of
\* their current values
MetricAnalysis_AverageOfAverages(metric, metric_values) ==
    LET sorted_repos == SortedByCurrentDesc(metric_values)
    IN  [metric  |-> metric,
         ranking |-> [i \in 1..Len(sorted_repos) |->
                         [repository |-> sorted_repos[i].repo,
                          rank       |-> i,
                          current    |-> sorted_repos[i].values.current,
                          average    |-> sorted_repos[i].values.average,
                          max        |-> sorted_repos[i].values.max,
                          min        |-> sorted_repos[i].values.min,
                          trend      |-> sorted_repos[i].values.trend]],
         summary |-> [top_repository     |-> sorted_repos[1].repo,
                      average_all        |->
                          LET den == Lcm([i \in 1..Len(metric_values) |->
                                             metric_values[i].values.average[2]])
                          IN  Frac(Sum([i \in 1..Len(metric_values) |->
                                           metric_values[i].values.average[1]
                                             * (den \div metric_values[i].values.average[2])]),
                                   den * Len(metric_values)),
                      total_repositories |-> Len(metric_values)]]

\* analysis[metric] for a non-empty metric_values
MetricAnalysis(metric, metric_values) ==
    LET sorted_repos == SortedByCurrentDesc(metric_values)
    IN  [metric  |-> metric,
         ranking |-> [i \in 1..Len(sorted_repos) |->
                         [repository |-> sorted_repos[i].repo,
                          rank       |-> i,
                          current    |-> sorted_repos[i].values.current,
                          average    |-> sorted_repos[i].values.average,
                          max        |-> sorted_repos[i].values.max,
                          min        |-> sorted_repos[i].values.min,
                          trend      |-> sorted_repos[i].values.trend]],
         summary |-> [top_repository     |-> sorted_repos[1].repo,
                      average_all        |-> Mean([i \in 1..Len(metric_values) |->
                                                      metric_values[i].values.current]),
                      total_repositories |-> Len(metric_values)]]

\* the dict analysis, as the sequence of its entries in insertion order
RECURSIVE analyze_comparison(_, _)
analyze_comparison(data, metrics) ==
    IF metrics = <<>> THEN <<>>
    ELSE LET metric_values == CollectMetricValues(data, Head(metrics))
             rest          == analyze_comparison(data, Tail(metrics))
         IN  IF metric_values # <<>>
             THEN <<MetricAnalysis(Head(metrics), metric_values)>> \o rest
             ELSE rest

(***************************************************************************)
(* The /compare route (analysis.py:20-91).  fetches[i] is what the i-th    *)
(* call of client.get_repo_metrics does: it raises ([raises |-> TRUE] with *)
(* the text of the exception) or returns the fetched value data.           *)
(***************************************************************************)
\* d[key] = value on a dict kept as a sequence of entries
DictAssign(d, key, value) ==
    IF \E i \in 1..Len(d) : d[i].repo = key
    THEN [i \in 1..Len(d) |-> IF d[i].repo = key THEN [repo |-> key, data |-> value] ELSE d[i]]
    ELSE Append(d, [repo |-> key, data |-> value])

NoMetrics == [m \in {"activity", "openrank"} |-> Absent]

\* {'error': str(e)}
ErrorData(text) == [has_error |-> TRUE, error |-> text, metrics |-> NoMetrics]

\* the loop at analysis.py:57-67 over the first k repositories
RECURSIVE FetchAll(_, _, _)
FetchAll(repositories, fetches, k) ==
    IF k = 0 THEN <<>>
    ELSE DictAssign(FetchAll(repositories, fetches, k - 1), repositories[k],
                    IF fetches[k].raises THEN ErrorData(fetches[k].text) ELSE fetches[k].data)

\* the metrics of a request that names none: ['activity', 'openrank']
DefaultMetrics == <<"activity", "openrank">>

compare_repositories(request) ==
    IF Len(request.repositories) > MaxRepositories
    THEN ErrorResponse("Maximum 10 repositories allowed per comparison", 400)
    ELSE LET comparison_data ==
                 FetchAll(request.repositories, request.fetches, Len(request.repositories))
             failed == {i \in 1..Len(comparison_data) : GetError(comparison_data[i].data)}
         IN  [kind       |-> "success",
              comparison |-> comparison_data,
              analysis   |-> analyze_comparison(comparison_data, DefaultMetrics),
              summary    |-> [total_repositories |-> Len(request.repositories),
                              successful |-> Len(comparison_data) - Cardinality(failed),
                              failed     |-> Cardinality(failed)]]

(***************************************************************************)
(* predict_linear_trend(values, periods): the forecasts in hundredths.     *)
(*                                                                         *)
(* With x = 0..n-1, Sy = sum(y), Sxy = sum(x*y), Sx = sum(x),              *)
(* Sxx = sum(x^2):                                                         *)
(*   numerator   = sum((x - x_mean) * (y - y_mean)) = (n*Sxy - Sx*Sy) / n  *)
(*   denominator = sum((x - x_mean)^2)              = (n*Sxx - Sx^2) / n   *)
(*   slope       = (n*Sxy - Sx*Sy) / (n*Sxx - Sx^2)                        *)
(*   slope * i + intercept = y_mean + slope * (i - x_mean)                 *)
(*       = (2*Sy*(n*Sxx - Sx^2) + n*(n*Sxy - Sx*Sy)*(2*i - (n-1)))         *)
(*         / (2*n*(n*Sxx - Sx^2))                                          *)
(***************************************************************************)
\* list(range(n))
Range(n) == [i \in 1..n |-> i - 1]

\* Repeat without the multiplication: the one-element list [v]
Repeat_Single(v, periods) == <<v>>

\* [v] * periods
Repeat(v, periods) == [i \in 1..Max2(periods, 0) |-> v]

\* n * numerator
SlopeNum(y) == Len(y) * SumProd(Range(Len(y)), y) - Sum(Range(Len(y))) * Sum(y)

\* n * denominator
SlopeDen(y) == VarNum(Range(Len(y)))

\* PredictionAt without max(prediction, 0)
PredictionAt_Unclamped(y, i) ==
    LET n   == Len(y)
        num == 2 * Sum(y) * SlopeDen(y) + n * SlopeNum(y) * (2 * i - (n - 1))
        den == 2 * n * SlopeDen(y)
    IN  Sign(num) * RoundDiv(100 * Abs(num), den)

\* round(max(slope * i + intercept, 0), 2), in hundredths
PredictionAt(y, i) ==
    LET n   == Len(y)
        num == 2 * Sum(y) * SlopeDen(y) + n * SlopeNum(y) * (2 * i - (n - 1))
        den == 2 * n * SlopeDen(y)
    IN  RoundDiv(100 * Max2(num, 0), den)

\* predict_linear_trend answering zeros for every input of fewer than 2
\* values, a single value included
predict_linear_trend_ShortIsZero(values, periods) ==
    LET n == Len(values)
    IN  IF n < MinRegressionPoints
        THEN Repeat(0, periods)
        ELSE IF SlopeDen(values) = 0
             THEN Repeat(RoundDiv(100 * Sum(values), n), periods)
             ELSE [k \in 1..Max2(periods, 0) |-> PredictionAt(values, n + k - 1)]

\* predict_linear_trend forecasting the indices n+1 .. n+periods, one step
\* too far
predict_linear_trend_SkipsNext(values, periods) ==
    LET n == Len(values)
    IN  IF n < MinRegressionPoints
        THEN IF values # <<>> THEN Repeat(100 * values[n], periods) ELSE Repeat(0, periods)
        ELSE IF SlopeDen(values) = 0
             THEN Repeat(RoundDiv(100 * Sum(values), n), periods)
             ELSE [k \in 1..Max2(periods, 0) |-> PredictionAt(values, n + k)]

predict_linear_trend(values, periods) ==
    LET n == Len(values)
    IN  IF n < MinRegressionPoints
        THEN IF values # <<>> THEN Repeat(100 * values[n], periods) ELSE Repeat(0, periods)
        ELSE IF SlopeDen(values) = 0
             THEN Repeat(RoundDiv(100 * Sum(values), n), periods)
             ELSE [k \in 1..Max2(periods, 0) |-> PredictionAt(values, n + k - 1)]

(***************************************************************************)
(* The /predict route (analysis.py:209-275).                               *)
(***************************************************************************)
\* AddMonths without the carry into the year
AddMonths_NoCarry(period, i) == period + i

\* (datetime.strptime(period, '%Y-%m') + relativedelta(months=i)).strftime('%Y-%m')
AddMonths(period, i) ==
    LET m == (period \div 100) * 12 + (period % 100) - 1 + i
    IN  (m \div 12) * 100 + (m % 12) + 1

\* max(historical_data.keys())
MaxKey(d) == CHOOSE p \in KeySet(d) : \A q \in KeySet(d) : q <= p

\* the values the regression is fitted on: list(historical_data.values())
HistoricalValues(historical_data) == Values(historical_data)

predict_metric(request) ==
    LET periods == Min2(request.periods, MaxPredictPeriods)
    IN  IF ~request.history.present \/ request.history.series = <<>>
        THEN ErrorResponse("Insufficient historical data for prediction", 404)
        ELSE LET historical_data == request.history.series
             IN  IF Len(historical_data) < MinHistoryPoints
                 THEN ErrorResponse("At least 6 months of data required for prediction", 400)
                 ELSE LET last_date == MaxKey(historical_data)
                      IN  [kind       |-> "success",
                           periods    |-> periods,
                           dates      |-> [i \in 1..Max2(periods, 0) |-> AddMonths(last_date, i)],
                           values     |-> predict_linear_trend(HistoricalValues(historical_data),
                                                               periods),
                           confidence |-> 70,
                           method     |-> "linear_regression"]

(***************************************************************************)
(* CoreDataFetcher (opendigger_core.py).  A Python value a field may hold  *)
(* is None, a number or a string; a JSON document is an object (a dict,    *)
(* its items in insertion order) or something else (a list, a number,      *)
(* null).  The keys of an object are period labels "YYYY-MM" or names.     *)
(***************************************************************************)
None == [kind |-> "none", number |-> 0, text |-> ""]

Number(n) == [kind |-> "number", number |-> n, text |-> ""]

Str(t) == [kind |-> "string", number |-> 0, text |-> t]

PeriodKey(p) == [is_period |-> TRUE, period |-> p, name |-> ""]

NameKey(n) == [is_period |-> FALSE, period |-> 0, name |-> n]

\* a < b on the keys as Python strings: period labels by date, and a label
\* (it starts with a digit) before a name (it starts with a letter)
KeyLess(a, b) ==
    IF a.is_period /\ b.is_period THEN a.period < b.period
    ELSE a.is_period /\ ~b.is_period

JsonDict(items) == [is_dict |-> TRUE, items |-> items]

JsonOther == [is_dict |-> FALSE, items |-> <<>>]

\* {"error": text}
ErrorDict(text) == JsonDict(<<[key |-> NameKey("error"), value |-> Str(text)]>>)

\* what one requests.get does: it raises (or response.json() does), or it
\* answers with a status code and a JSON document
HttpRaises(text) == [raises |-> TRUE, text |-> text, status_code |-> 0, json |-> JsonOther]

HttpResponse(status_code, json) ==
    [raises |-> FALSE, text |-> "", status_code |-> status_code, json |-> json]

\* repo_data[metric] after the try block of get_repo_metrics
MetricEntry(outcome) ==
    IF outcome.raises THEN ErrorDict(outcome.text)
    ELSE IF outcome.status_code = 200 THEN outcome.json
    ELSE ErrorDict("Status " \o ToString(outcome.status_code))

\* OpenDiggerClient.get_repo_metrics: fetch[m] is what the GET of metric m does
get_repo_metrics(fetch, metrics) == [m \in metrics |-> MetricEntry(fetch[m])]

\* the metrics get_repo_core_data asks for
CoreMetrics == {"openrank", "activity", "participants", "stars"}

\* CoreDataFetcher._get_latest_value
get_latest_value(data) ==
    IF ~data.is_dict \/ data.items = <<>> THEN None
    ELSE LET latest == CHOOSE i \in 1..Len(data.items) :
                           \A j \in 1..Len(data.items) :
                               j # i => KeyLess(data.items[j].key, data.items[i].key)
         IN  data.items[latest].value

\* CoreDataFetcher._get_primary_language: the language with the most bytes,
\* the first of them in the order of the document
get_primary_language(outcome) ==
    IF ~outcome.raises /\ outcome.status_code = 200
          /\ outcome.json.is_dict /\ outcome.json.items # <<>>
    THEN LET languages == outcome.json.items
             top == CHOOSE i \in 1..Len(languages) :
                        /\ \A j \in 1..Len(languages) :
                              languages[j].value.number <= languages[i].value.number
                        /\ \A j \in 1..(i - 1) :
                              languages[j].value.number < languages[i].value.number
         IN  languages[top].key.name
    ELSE "Unknown"

\* dict.get(name, default)
DictGet(json, name, default) ==
    IF \E i \in 1..Len(json.items) : json.items[i].key = NameKey(name)
    THEN json.items[CHOOSE i \in 1..Len(json.items) : json.items[i].key = NameKey(name)].value
    ELSE default

\* CoreDataFetcher._get_repo_description
get_repo_description(outcome) ==
    IF ~outcome.raises /\ outcome.status_code = 200 /\ outcome.json.is_dict
    THEN DictGet(outcome.json, "description", Str("No description"))
    ELSE Str("No description available")

\* process_core_fields without the activity_score field
process_core_fields_NoActivityScore(owner, repo, raw_data, languages, info) ==
    [repo_name         |-> owner \o "/" \o repo,
     primary_language  |-> get_primary_language(languages),
     description       |-> get_repo_description(info),
     openrank          |-> get_latest_value(raw_data["openrank"]),
     contributor_count |-> get_latest_value(raw_data["participants"]),
     commit_frequency  |-> <<21, 2>>,
     avg_response_time |-> <<5, 1>>,
     raw_metrics       |-> raw_data]

\* CoreDataFetcher._process_core_fields; languages and info are what the two
\* GETs of the GitHub API do; commit_frequency is 10.5 and avg_response_time
\* 5.0; raw_metrics is the field '_raw_metrics'
process_core_fields(owner, repo, raw_data, languages, info) ==
    [repo_name         |-> owner \o "/" \o repo,
     primary_language  |-> get_primary_language(languages),
     description       |-> get_repo_description(info),
     openrank          |-> get_latest_value(raw_data["openrank"]),
     contributor_count |-> get_latest_value(raw_data["participants"]),
     activity_score    |-> get_latest_value(raw_data["activity"]),
     commit_frequency  |-> <<21, 2>>,
     avg_response_time |-> <<5, 1>>,
     raw_metrics       |-> raw_data]

\* CoreDataFetcher.get_repo_core_data
get_repo_core_data(request) ==
    process_core_fields(request.owner, request.repo,
                        get_repo_metrics(request.metrics, CoreMetrics),
                        request.languages, request.info)

(***************************************************************************)
(* Inputs.  The series the remote service may return, bounded: any subset  *)
(* of the first NumPeriods months from 2023-10 on (so the year changes     *)
(* inside the range), any values from a small palette, in any insertion    *)
(* order.                                                                  *)
(***************************************************************************)
\* the i-th month counted from 2023-10, as YYYYMM
PeriodAt(i) ==
    LET m == 2023 * 12 + 8 + i
    IN  (m \div 12) * 100 + (m % 12) + 1

Periods == {PeriodAt(i) : i \in 1..NumPeriods}

\* the dict with keys ks[i] and values vs[i], inserted in the order of i
MkDict(ks, vs) == [i \in 1..Len(ks) |-> [period |-> ks[i], value |-> vs[i]]]

Injective(ks) == \A i, j \in 1..Len(ks) : ks[i] = ks[j] => i = j

\* d is a dict of at most NumPeriods points with values in palette, in any
\* insertion order (an existential, so that the inputs are enumerated one
\* by one)
IsDictOver(d, palette) ==
    \E n \in 0..NumPeriods :
        \E ks \in [1..n -> Periods] :
            /\ Injective(ks)
            /\ \E vs \in [1..n -> palette] : d = MkDict(ks, vs)

\* value palettes of the trend inputs: small values with a sign change and
\* a zero, and values around the +-5 % thresholds
TrendPalettes == {{-3, 0, 1}, {19, 20, 21}}

\* Scenario 1 of the specification, {"2023-01":10, ..., "2023-04":20}
Scenario1 ==
    << [period |-> 202301, value |-> 10], [period |-> 202302, value |-> 12],
       [period |-> 202303, value |-> 15], [period |-> 202304, value |-> 20] >>

NoResult == [kind |-> "none"]

\* the variables of the other routes while one route is exercised
\* two-point series whose percentage change lies within half a hundredth of
\* a band edge: 5.0049, -5.0049, 0.004999 and -0.004999 percent
BandEdgeSeries ==
    {MkDict(<<PeriodAt(1), PeriodAt(2)>>, vs) :
        vs \in {<<1019, 1070>>, <<-1019, -1070>>, <<20001, 20002>>, <<20002, 20001>>}}

\* a value beyond the float range (as the integer 10**400 is)
Huge == 100 * FloatMax

TrendIdle == trend_data = <<>> /\ trend_result = NoResult /\ trend_response = NoResult

CorrIdle ==
    /\ corr_data = [metric1 |-> [present |-> FALSE, series |-> <<>>],
                    metric2 |-> [present |-> FALSE, series |-> <<>>]]
    /\ correlation = 0
    /\ corr_response = NoResult

CompareIdle ==
    /\ compare_request = [repositories |-> <<>>, fetches |-> <<>>]
    /\ compare_response = NoResult

PredictIdle ==
    /\ predict_request = [history |-> Absent, periods |-> 0]
    /\ prediction = <<>>
    /\ predict_response = NoResult

CoreIdle ==
    /\ core_request = [owner |-> "", repo |-> "",
                       metrics |-> [m \in CoreMetrics |-> HttpRaises("")],
                       languages |-> HttpRaises(""), info |-> HttpRaises("")]
    /\ core_data = NoResult

CallsIdle == calls = <<>> /\ frames = <<>>

(***************************************************************************)
(* Trend analysis: the state machine.                                      *)
(***************************************************************************)
InitTrend ==
    /\ op = "idle"
    /\ CoreIdle
    /\ CallsIdle
    /\ \/ \E palette \in TrendPalettes : IsDictOver(trend_data, palette)
       \/ trend_data = Scenario1
       \/ trend_data \in BandEdgeSeries
    /\ trend_result = NoResult
    /\ trend_response = NoResult
    /\ CorrIdle
    /\ CompareIdle
    /\ PredictIdle

\* a direct call analyze_trend_data(trend_data, metric)
AnalyzeTrendData ==
    /\ op = "idle"
    /\ op' = "analyze_trend_data"
    /\ trend_result' = analyze_trend_data(trend_data)
    /\ UNCHANGED <<trend_data, trend_response, corrVars, compareVars, predictVars, coreVars, callVars>>

\* a POST /trend request whose fetch returned trend_data
AnalyzeTrend ==
    /\ op = "idle"
    /\ op' = "analyze_trend"
    /\ trend_response' = analyze_trend(trend_data)
    /\ UNCHANGED <<trend_data, trend_result, corrVars, compareVars, predictVars, coreVars, callVars>>

NextTrend == AnalyzeTrendData \/ AnalyzeTrend

SpecTrend == InitTrend /\ [][NextTrend]_vars

(***************************************************************************)
(* Trend analysis on sparse, degenerate and extreme series: empty, single  *)
(* point, constant, all zeros, first value zero, and series whose latest   *)
(* point is a finite value beyond the float range.                         *)
(***************************************************************************)
\* the series with the value at its latest period replaced
SpikeLatest(d, v) ==
    [i \in 1..Len(d) |-> IF \A j \in 1..Len(d) : d[j].period <= d[i].period
                          THEN [period |-> d[i].period, value |-> v]
                          ELSE d[i]]

InitRobust ==
    /\ op = "idle"
    /\ CoreIdle
    /\ CallsIdle
    /\ \E n \in 0..NumPeriods :
          \E ks \in [1..n -> Periods] :
             /\ Injective(ks)
             /\ \E vs \in [1..n -> {0, 1}] :
                   \E spike \in BOOLEAN :
                      trend_data = IF spike THEN SpikeLatest(MkDict(ks, vs), Huge)
                                            ELSE MkDict(ks, vs)
    /\ trend_result = NoResult
    /\ trend_response = NoResult
    /\ CorrIdle
    /\ CompareIdle
    /\ PredictIdle

SpecRobust == InitRobust /\ [][NextTrend]_vars

(***************************************************************************)
(* Correlation: inputs and state machine.  Each metric is absent from the  *)
(* fetched data or carries a series over any subset of Periods with values *)
(* in CorrValues; metric1 arrives in ascending or in descending period     *)
(* order, metric2 in ascending order.                                      *)
(***************************************************************************)
CorrValues == {-1, 1}

Reverse(xs) == [i \in 1..Len(xs) |-> xs[Len(xs) + 1 - i]]

\* the dict of the mapping f (a function on a set of periods), ascending
Ascending(f) ==
    LET dates == SortedSet(DOMAIN f)
    IN  [i \in 1..Len(dates) |-> [period |-> dates[i], value |-> f[dates[i]]]]

CorrSeries == UNION {{Ascending(f) : f \in [ks -> CorrValues]} : ks \in SUBSET Periods}

CorrMetric1 ==
    {Absent} \cup {Present(d) : d \in CorrSeries} \cup {Present(Reverse(d)) : d \in CorrSeries}

CorrMetric2 == {Absent} \cup {Present(d) : d \in CorrSeries}

\* x = [1,2,3,4,5] on the periods 2023-01 .. 2023-05, and its negation
Scenario2 == [i \in 1..5 |-> [period |-> 202300 + i, value |-> i]]

Negated(d) == [i \in 1..Len(d) |-> [period |-> d[i].period, value |-> -d[i].value]]

InitCorr ==
    /\ op = "idle"
    /\ CoreIdle
    /\ CallsIdle
    /\ \/ \E m1 \in CorrMetric1, m2 \in CorrMetric2 :
             corr_data = [metric1 |-> m1, metric2 |-> m2]
       \/ corr_data \in {[metric1 |-> Present(Scenario2), metric2 |-> Present(Scenario2)],
                         [metric1 |-> Present(Scenario2), metric2 |-> Present(Negated(Scenario2))]}
    /\ correlation = 0
    /\ corr_response = NoResult
    /\ TrendIdle
    /\ CompareIdle
    /\ PredictIdle

\* a POST /correlation request whose fetch returned corr_data
AnalyzeCorrelation ==
    /\ op = "idle"
    /\ op' = "analyze_correlation"
    /\ corr_response' = analyze_correlation(corr_data)
    /\ UNCHANGED <<corr_data, correlation, trendVars, compareVars, predictVars, coreVars, callVars>>

\* a direct call calculate_correlation(values1, values2) on the two value
\* lists as stored
CalculateCorrelation ==
    /\ op = "idle"
    /\ op' = "calculate_correlation"
    /\ correlation' = calculate_correlation(Values(corr_data.metric1.series),
                                            Values(corr_data.metric2.series))
    /\ UNCHANGED <<corr_data, corr_response, trendVars, compareVars, predictVars, coreVars, callVars>>

NextCorr == AnalyzeCorrelation \/ CalculateCorrelation

SpecCorr == InitCorr /\ [][NextCorr]_vars

(***************************************************************************)
(* interpret_correlation on its own: the coefficient is any multiple of    *)
(* 0.0001 (what round(correlation, 4) produces) within +-MaxCorrelation.   *)
(***************************************************************************)
InitInterpret ==
    /\ op = "idle"
    /\ CoreIdle
    /\ CallsIdle
    /\ corr_data = [metric1 |-> Absent, metric2 |-> Absent]
    /\ correlation \in (-MaxCorrelation)..MaxCorrelation
    /\ corr_response = NoResult
    /\ TrendIdle
    /\ CompareIdle
    /\ PredictIdle

\* a direct call interpret_correlation(correlation)
InterpretCorrelation ==
    /\ op = "idle"
    /\ op' = "interpret_correlation"
    /\ corr_response' = [kind |-> "interpretation",
                         interpretation |-> interpret_correlation(correlation)]
    /\ UNCHANGED <<corr_data, correlation, trendVars, compareVars, predictVars, coreVars, callVars>>

NextInterpret == InterpretCorrelation

SpecInterpret == InitInterpret /\ [][NextInterpret]_vars

(***************************************************************************)
(* Comparison: inputs and state machine.  A request names up to MaxRepos   *)
(* repositories out of three, repeats allowed; each fetch raises (with or  *)
(* without a text) or returns data in which the activity metric is absent  *)
(* or carries a series of up to two points in either insertion order.      *)
(***************************************************************************)
RepoNames == {"a/x", "b/y", "c/z"}

CompareValues == {50, 100}

ComparePeriods == {PeriodAt(1), PeriodAt(2)}

CompareSeries ==
    LET asc == UNION {{Ascending(f) : f \in [ks -> CompareValues]} : ks \in SUBSET ComparePeriods}
    IN  asc \cup {Reverse(d) : d \in asc}

\* fetched data carrying the activity metric a and the openrank metric o
FetchedData(a, o) ==
    [has_error |-> FALSE, error |-> "",
     metrics |-> [m \in {"activity", "openrank"} |-> IF m = "activity" THEN a ELSE o]]

Raises(text) == [raises |-> TRUE, text |-> text, data |-> ErrorData(text)]

Returns(data) == [raises |-> FALSE, text |-> "", data |-> data]

FetchOutcomes ==
    {Raises(""), Raises("timeout"), Returns(FetchedData(Absent, Absent))}
        \cup {Returns(FetchedData(Present(d), Absent)) : d \in CompareSeries}

OnePoint(v) == <<[period |-> PeriodAt(1), value |-> v]>>

\* Scenario 6 of the specification, {A: current = 30, B: no data}, B's
\* series being empty
Scenario6 ==
    [repositories |-> <<"a/x", "b/y">>,
     fetches |-> <<Returns(FetchedData(Present(OnePoint(30)), Absent)),
                   Returns(FetchedData(Present(<<>>), Absent))>>]

\* both metrics fetched for two repositories
TwoMetrics ==
    [repositories |-> <<"a/x", "b/y">>,
     fetches |-> <<Returns(FetchedData(Present(OnePoint(100)), Present(OnePoint(50)))),
                   Returns(FetchedData(Present(OnePoint(50)), Present(OnePoint(100))))>>]

InitCompare ==
    /\ op = "idle"
    /\ CoreIdle
    /\ CallsIdle
    /\ \/ \E n \in 0..MaxRepos :
             \E repositories \in [1..n -> RepoNames] :
                \E fetches \in [1..n -> FetchOutcomes] :
                   compare_request = [repositories |-> repositories, fetches |-> fetches]
       \/ compare_request \in {Scenario6, TwoMetrics}
    /\ compare_response = NoResult
    /\ TrendIdle
    /\ CorrIdle
    /\ PredictIdle

\* a POST /compare request
CompareRepositories ==
    /\ op = "idle"
    /\ op' = "compare_repositories"
    /\ compare_response' = compare_repositories(compare_request)
    /\ UNCHANGED <<compare_request, trendVars, corrVars, predictVars, coreVars, callVars>>

NextCompare == CompareRepositories

SpecCompare == InitCompare /\ [][NextCompare]_vars

(***************************************************************************)
(* Prediction: inputs and state machine.  The metric is absent from the    *)
(* fetched data or carries a history on the first n months, n up to        *)
(* MinHistoryPoints + ExtraHistory, with values in PredictValues, inserted *)
(* in ascending order, in descending order, or with the earliest month     *)
(* inserted last; or it carries a perfectly linear history of non-negative *)
(* values.                                                                 *)
(***************************************************************************)
PredictValues == {0, 1, 3}

PredictPeriods == {1, 2, 13}

\* the first point moved behind the others
EarliestLast(d) == IF d = <<>> THEN d ELSE Append(Tail(d), Head(d))

\* first values and steps of the perfectly linear histories
LinearStarts == {1, 6}

LinearSteps == {-1, 1, 2}

\* the history a, a+d, ..., a+(n-1)d on the first n months
LinearHistory(a, d, n) == MkDict([i \in 1..n |-> PeriodAt(i)], [i \in 1..n |-> a + (i - 1) * d])

InitPredict ==
    /\ op = "idle"
    /\ CoreIdle
    /\ CallsIdle
    /\ \E periods \in PredictPeriods :
          \/ predict_request = [history |-> Absent, periods |-> periods]
          \/ \E n \in 0..(MinHistoryPoints + ExtraHistory) :
                \E vs \in [1..n -> PredictValues] :
                   \E d \in {MkDict([i \in 1..n |-> PeriodAt(i)], vs)} :
                      \E history \in {d, Reverse(d), EarliestLast(d)} :
                         predict_request = [history |-> Present(history), periods |-> periods]
          \/ \E a \in LinearStarts, d \in LinearSteps :
                \E n \in 2..(MinHistoryPoints + ExtraHistory) :
                   /\ a + (n - 1) * d >= 0
                   /\ predict_request = [history |-> Present(LinearHistory(a, d, n)),
                                         periods |-> periods]
    /\ prediction = <<>>
    /\ predict_response = NoResult
    /\ TrendIdle
    /\ CorrIdle
    /\ CompareIdle

\* a POST /predict request whose fetch returned predict_request.history
PredictMetric ==
    /\ op = "idle"
    /\ op' = "predict_metric"
    /\ predict_response' = predict_metric(predict_request)
    /\ UNCHANGED <<predict_request, prediction, trendVars, corrVars, compareVars, coreVars, callVars>>

\* a direct call predict_linear_trend(values, periods) on the stored values
PredictLinearTrend ==
    /\ op = "idle"
    /\ op' = "predict_linear_trend"
    /\ prediction' = predict_linear_trend(Values(predict_request.history.series),
                                          predict_request.periods)
    /\ UNCHANGED <<predict_request, predict_response, trendVars, corrVars, compareVars, coreVars, callVars>>

NextPredict == PredictMetric \/ PredictLinearTrend

SpecPredict == InitPredict /\ [][NextPredict]_vars

(***************************************************************************)
(* CoreDataFetcher: the state machine.  Every GET succeeds with a JSON     *)
(* document, answers with another status, or raises.                       *)
(***************************************************************************)
\* a fetched metric series, in period order
CoreSeries ==
    <<[key |-> PeriodKey(PeriodAt(1)), value |-> Number(3)],
      [key |-> PeriodKey(PeriodAt(2)), value |-> Number(7)]>>

MetricOutcomes ==
    {HttpResponse(200, JsonDict(CoreSeries)), HttpResponse(200, JsonDict(Reverse(CoreSeries))),
     HttpResponse(200, JsonDict(<<>>)), HttpResponse(200, JsonOther),
     HttpResponse(404, JsonOther), HttpRaises("timeout"), HttpRaises("")}

\* the stars series is fetched and kept in the raw metrics only
StarsOutcomes == {HttpResponse(200, JsonDict(CoreSeries)), HttpResponse(404, JsonOther)}

LanguagesOutcomes ==
    {HttpResponse(200, JsonDict(<<[key |-> NameKey("C"), value |-> Number(20)],
                                  [key |-> NameKey("Python"), value |-> Number(50)],
                                  [key |-> NameKey("Go"), value |-> Number(50)]>>)),
     HttpResponse(200, JsonDict(<<>>)), HttpResponse(403, JsonOther), HttpRaises("timeout")}

InfoOutcomes ==
    {HttpResponse(200, JsonDict(<<[key |-> NameKey("description"), value |-> Str("a tool")]>>)),
     HttpResponse(200, JsonDict(<<[key |-> NameKey("description"), value |-> None]>>)),
     HttpResponse(200, JsonDict(<<>>)), HttpResponse(403, JsonOther), HttpRaises("timeout")}

CoreRepos == {<<"X-lab2017", "open-digger">>, <<"a", "x">>}

InitCore ==
    /\ op = "idle"
    /\ \E name \in CoreRepos, languages \in LanguagesOutcomes, info \in InfoOutcomes :
          \E metrics \in [CoreMetrics -> MetricOutcomes] :
             /\ metrics["stars"] \in StarsOutcomes
             /\ core_request = [owner |-> name[1], repo |-> name[2], metrics |-> metrics,
                                languages |-> languages, info |-> info]
    /\ core_data = NoResult
    /\ CallsIdle
    /\ TrendIdle
    /\ CorrIdle
    /\ CompareIdle
    /\ PredictIdle

\* a call CoreDataFetcher().get_repo_core_data(owner, repo)
GetRepoCoreData ==
    /\ op = "idle"
    /\ op' = "get_repo_core_data"
    /\ core_data' = get_repo_core_data(core_request)
    /\ UNCHANGED <<core_request, trendVars, corrVars, compareVars, predictVars, callVars>>

NextCore == GetRepoCoreData

SpecCore == InitCore /\ [][NextCore]_vars

(***************************************************************************)
(* Concurrent analyzer calls on a shared series (analysis.py:277-496).     *)
(* A call binds its arguments, reads them into its local variables and     *)
(* returns a result computed from these; the steps of different calls      *)
(* interleave in any order.  No step assigns to the shared series, and     *)
(* the analyzers use no module-level variable.                             *)
(***************************************************************************)
Analyzers ==
    {"analyze_trend_data", "predict_linear_trend", "calculate_correlation",
     "analyze_comparison"}

\* the values of a series on its sorted dates (analysis.py:328-329)
ValuesByDate(data) ==
    LET dates == TrendDates(data)
    IN  [i \in 1..Len(dates) |-> Get(data, dates[i])]

\* all calls keeping their local variables in one place, as module-level
\* variables would be
Frame_Shared(call) == 1

\* where the local variables of a call live: in the call's own frame
Frame(call) == call

\* the local variables of a call that has not read anything
NoLocals == [dates |-> <<>>, first |-> <<>>, values |-> <<>>]

\* the lists a call keeps in local variables once it has read its
\* arguments: dates and values (analysis.py:328-329), x and y (470-471,
\* as first and values), values1 and values2 (403, as first and values),
\* values (286)
ReadLocals(fn, data) ==
    IF fn = "analyze_trend_data"
    THEN [dates |-> TrendDates(data), first |-> <<>>, values |-> ValuesByDate(data)]
    ELSE IF fn = "predict_linear_trend"
    THEN [dates |-> <<>>, first |-> Range(Len(data)), values |-> Values(data)]
    ELSE IF fn = "calculate_correlation"
    THEN [dates |-> <<>>, first |-> Values(data), values |-> ValuesByDate(data)]
    ELSE [dates |-> <<>>, first |-> <<>>, values |-> Values(data)]

\* the {repo: {metric: series}} mapping of one repository with one series
OneRepository(series) == <<[repo |-> "a/x", data |-> FetchedData(Present(series), Absent)]>>

\* what the call returns, computed from its local variables
ResultFrom(fn, locals) ==
    IF fn = "analyze_trend_data" THEN analyze_trend_data(MkDict(locals.dates, locals.values))
    ELSE IF fn = "predict_linear_trend" THEN predict_linear_trend(locals.values, 2)
    ELSE IF fn = "calculate_correlation"
    THEN calculate_correlation(locals.first, locals.values)
    ELSE analyze_comparison(OneRepository(MkDict(Range(Len(locals.values)), locals.values)),
                            <<"activity">>)

Calls == 1..NumCalls

NotCalled == [fn |-> "none", pc |-> "idle", result |-> NoResult]

\* the values of the shared series, by position of insertion
SharedValues == <<3, 1, 0>>

InitConcurrent ==
    /\ op = "idle"
    /\ \E n \in 2..3 :
          \E ks \in [1..n -> Periods] :
             /\ Injective(ks)
             /\ trend_data = MkDict(ks, [i \in 1..n |-> SharedValues[i]])
    /\ trend_result = NoResult
    /\ trend_response = NoResult
    /\ calls = [c \in Calls |-> NotCalled]
    /\ frames = [c \in Calls |-> NoLocals]
    /\ CoreIdle
    /\ CorrIdle
    /\ CompareIdle
    /\ PredictIdle

\* a caller calls an analyzer on the shared series
Call(c, fn) ==
    /\ calls[c].pc = "idle"
    /\ calls' = [calls EXCEPT ![c] = [fn |-> fn, pc |-> "called", result |-> NoResult]]
    /\ UNCHANGED <<op, frames, trendVars, corrVars, compareVars, predictVars, coreVars>>

\* the call reads its arguments into its local variables
Read(c) ==
    /\ calls[c].pc = "called"
    /\ frames' = [frames EXCEPT ![Frame(c)] = ReadLocals(calls[c].fn, trend_data)]
    /\ calls' = [calls EXCEPT ![c].pc = "read"]
    /\ UNCHANGED <<op, trendVars, corrVars, compareVars, predictVars, coreVars>>

\* the call computes its result from its local variables and returns it
Return(c) ==
    /\ calls[c].pc = "read"
    /\ calls' = [calls EXCEPT ![c].pc = "returned",
                              ![c].result = ResultFrom(calls[c].fn, frames[Frame(c)])]
    /\ UNCHANGED <<op, frames, trendVars, corrVars, compareVars, predictVars, coreVars>>

NextConcurrent ==
    \E c \in Calls :
        \/ \E fn \in Analyzers : Call(c, fn)
        \/ Read(c)
        \/ Return(c)

SpecConcurrent == InitConcurrent /\ [][NextConcurrent]_vars

(***************************************************************************)
(* Vocabulary of the properties: a series read as a mapping from period to *)
(* value, independently of its insertion order.                            *)
(***************************************************************************)
\* the position a point of d takes when the points are ordered by period
RankIn(d, i) == Cardinality({j \in 1..Len(d) : d[j].period < d[i].period}) + 1

\* the same mapping, inserted in ascending period order
ByPeriod(d) == [r \in 1..Len(d) |-> d[CHOOSE i \in 1..Len(d) : RankIn(d, i) = r]]

EarliestPeriod(d) == CHOOSE p \in KeySet(d) : \A q \in KeySet(d) : p <= q

LatestPeriod(d) == CHOOSE p \in KeySet(d) : \A q \in KeySet(d) : p >= q

EarliestValue(d) == Get(d, EarliestPeriod(d))

LatestValue(d) == Get(d, LatestPeriod(d))

InInsertionOrder(d) == \A i \in 1..(Len(d) - 1) : d[i].period < d[i + 1].period

TrendDone == op = "analyze_trend_data"

(***************************************************************************)
(* C2.  analyze_trend_data applied to a series with fewer than 2 points,   *)
(* the empty series included, returns the InsufficientData outcome: status *)
(* "insufficient_data" together with a message.                            *)
(***************************************************************************)
C2_FewerThanTwoIsInsufficient ==
    (TrendDone /\ Len(trend_data) < 2) =>
        /\ trend_result.kind = "insufficient_data"
        /\ trend_result.status = "insufficient_data"
        /\ trend_result.message # ""

(***************************************************************************)
(* C3 as stated.  For every series with n >= 2 points the moving-average   *)
(* trend is "increasing" exactly when the average of the last window of    *)
(* min(3, n) points exceeds the average of the first window, "decreasing"  *)
(* otherwise, and never "unknown".                                         *)
(***************************************************************************)
\* sum of the w values of ByPeriod(d) starting at position i
WindowSum(d, i, w) == Sum([k \in 1..w |-> ByPeriod(d)[i + k - 1].value])

LastWindowAbove(d) ==
    LET w == Min2(3, Len(d))
    IN  WindowSum(d, Len(d) - w + 1, w) > WindowSum(d, 1, w)

C3_MaTrendNeverUnknown ==
    (TrendDone /\ Len(trend_data) >= 2) =>
        trend_result.trend.moving_average_trend =
            IF LastWindowAbove(trend_data) THEN "increasing" ELSE "decreasing"

(***************************************************************************)
(* C3 amended.  With n >= 4 points the moving-average trend is             *)
(* "increasing" exactly when the last 3-point window average is strictly   *)
(* greater than the first, "decreasing" otherwise (ties included); with    *)
(* n = 2 or n = 3 there is a single window and the trend is "unknown".     *)
(***************************************************************************)
C3_MaTrend ==
    (TrendDone /\ Len(trend_data) >= 2) =>
        trend_result.trend.moving_average_trend =
            IF Len(trend_data) < 4 THEN "unknown"
            ELSE IF LastWindowAbove(trend_data) THEN "increasing" ELSE "decreasing"

\* four points out of insertion order whose first and last windows tie
C3_Witness ==
    /\ TrendDone
    /\ Len(trend_data) >= 4
    /\ ~InInsertionOrder(trend_data)
    /\ WindowSum(trend_data, Len(trend_data) - 2, 3) = WindowSum(trend_data, 1, 3)
    /\ trend_result.statistics.range > 0
    /\ trend_result.trend.moving_average_trend = "decreasing"

(***************************************************************************)
(* C7 as stated.  For every series with >= 2 points the reported           *)
(* percentage_change is ((last - first) / |first|) * 100 when first # 0    *)
(* and 0 when first = 0, first and last being the values at the least and  *)
(* greatest period; Scenario 1 reports average 14.25, maximum 20,          *)
(* minimum 10, range 10 and percentage_change 100.0.                       *)
(***************************************************************************)
Scenario1Statistics ==
    (TrendDone /\ trend_data = Scenario1) =>
        /\ trend_result.statistics.average = 1425
        /\ trend_result.statistics.maximum = 20
        /\ trend_result.statistics.minimum = 10
        /\ trend_result.statistics.range = 10
        /\ trend_result.trend.percentage_change = 10000

C7_PercentageChangeExact ==
    /\ Scenario1Statistics
    /\ (TrendDone /\ Len(trend_data) >= 2) =>
          LET first == EarliestValue(trend_data)
              last  == LatestValue(trend_data)
              \* reported value, in hundredths
              h     == trend_result.trend.percentage_change
          IN  IF first # 0
              THEN h * Abs(first) = 10000 * (last - first)
              ELSE h = 0

(***************************************************************************)
(* C7 amended.  The reported percentage_change is that value rounded to 2  *)
(* decimal places (within half a hundredth of it), and 0 when first = 0;   *)
(* the figures of Scenario 1 are as stated.                                *)
(***************************************************************************)
C7_PercentageChangeRounded ==
    /\ Scenario1Statistics
    /\ (TrendDone /\ Len(trend_data) >= 2) =>
          LET first == EarliestValue(trend_data)
              last  == LatestValue(trend_data)
              h     == trend_result.trend.percentage_change
          IN  IF first # 0
              THEN 2 * Abs(h * Abs(first) - 10000 * (last - first)) <= Abs(first)
              ELSE h = 0

\* a negative first value and a change that is no whole number of hundredths
C7_Witness ==
    /\ TrendDone
    /\ Len(trend_data) >= 2
    /\ ~InInsertionOrder(trend_data)
    /\ EarliestValue(trend_data) < 0
    /\ trend_result.trend.percentage_change > 0
    /\ trend_result.trend.percentage_change * Abs(EarliestValue(trend_data))
          # 10000 * (LatestValue(trend_data) - EarliestValue(trend_data))

(***************************************************************************)
(* C8.  The direction is a total, first-match-wins classification of the   *)
(* (unrounded) percentage change p: strong_increase iff p > 5,             *)
(* slight_increase iff 0 < p <= 5, strong_decrease iff p < -5,             *)
(* slight_decrease iff -5 <= p < 0, stable iff p = 0.                      *)
(***************************************************************************)
C8_DirectionBands ==
    (TrendDone /\ Len(trend_data) >= 2) =>
        LET first == EarliestValue(trend_data)
            last  == LatestValue(trend_data)
            \* p = num / den with den > 0
            num   == IF first # 0 THEN 100 * (last - first) ELSE 0
            den   == IF first # 0 THEN Abs(first) ELSE 1
            dir   == trend_result.trend.direction
        IN  /\ dir \in {"strong_increase", "slight_increase", "strong_decrease",
                        "slight_decrease", "stable"}
            /\ dir = "strong_increase" <=> num > 5 * den
            /\ dir = "slight_increase" <=> (0 < num /\ num <= 5 * den)
            /\ dir = "strong_decrease" <=> num < -5 * den
            /\ dir = "slight_decrease" <=> (-5 * den <= num /\ num < 0)
            /\ dir = "stable" <=> num = 0

\* p = 5 exactly falls to the weaker band
C8_Witness ==
    /\ TrendDone
    /\ Len(trend_data) >= 2
    /\ EarliestValue(trend_data) # 0
    /\ 100 * (LatestValue(trend_data) - EarliestValue(trend_data))
          = 5 * Abs(EarliestValue(trend_data))
    /\ trend_result.trend.direction = "slight_increase"

(***************************************************************************)
(* C9.  The points are ordered by ascending period before use: every       *)
(* insertion order of a period-to-value mapping gives the TrendResult of   *)
(* the mapping inserted in period order, start_date is the least period,   *)
(* end_date the greatest, and total = duration_months = number of points.  *)
(***************************************************************************)
C9_OrderInsensitive ==
    (TrendDone /\ Len(trend_data) >= 2) =>
        /\ trend_result = analyze_trend_data(ByPeriod(trend_data))
        /\ trend_result.periods.start_date = EarliestPeriod(trend_data)
        /\ trend_result.periods.end_date = LatestPeriod(trend_data)
        /\ trend_result.periods.total = Len(trend_data)
        /\ trend_result.periods.duration_months = Len(trend_data)
        /\ trend_result.trend.absolute_change
              = LatestValue(trend_data) - EarliestValue(trend_data)

\* the latest period was inserted first and carries a different value
C9_Witness ==
    /\ TrendDone
    /\ Len(trend_data) >= 3
    /\ trend_data[1].period = LatestPeriod(trend_data)
    /\ trend_result.kind = "trend"
    /\ trend_result.trend.absolute_change
          # trend_data[Len(trend_data)].value - trend_data[1].value

(***************************************************************************)
(* Vocabulary of the correlation properties.                               *)
(***************************************************************************)
CorrDone == op = "analyze_correlation" /\ corr_data.metric1.present /\ corr_data.metric2.present

Series1 == corr_data.metric1.series

Series2 == corr_data.metric2.series

\* the points of d1 whose period d2 has too
SharedPoints(d1, d2) == {i \in 1..Len(d1) : \E j \in 1..Len(d2) : d1[i].period = d2[j].period}

\* d2 carries, on the same periods, the values of d1 multiplied by k
Multiple(d1, d2, k) ==
    /\ Len(d1) = Len(d2)
    /\ \A i \in 1..Len(d1) : \E j \in 1..Len(d2) :
          d1[i].period = d2[j].period /\ d2[j].value = k * d1[i].value

NonConstant(d) == \E i, j \in 1..Len(d) : d[i].value # d[j].value

(***************************************************************************)
(* C1.  For every non-constant series x of n >= 3 aligned points the       *)
(* correlation of (x, x) is 1.0 and that of (x, -x) is -1.0, within 1e-3;  *)
(* two identical series [1,2,3,4,5] on the same 5 periods give correlation *)
(* 1.0, "Strong positive correlation" and data_points 5.                   *)
(***************************************************************************)
C1_SelfCorrelationIsOne ==
    /\ (CorrDone /\ Len(Series1) >= 3 /\ NonConstant(Series1) /\ Multiple(Series1, Series2, 1)) =>
          /\ corr_response.kind = "success"
          /\ Abs(corr_response.correlation - 10000) <= 10
    /\ (CorrDone /\ Len(Series1) >= 3 /\ NonConstant(Series1) /\ Multiple(Series1, Series2, -1)) =>
          /\ corr_response.kind = "success"
          /\ Abs(corr_response.correlation + 10000) <= 10
    /\ (CorrDone /\ Series1 = Scenario2 /\ Series2 = Scenario2) =>
          /\ corr_response.kind = "success"
          /\ corr_response.correlation = 10000
          /\ corr_response.interpretation = "Strong positive correlation"
          /\ corr_response.data_points = 5

(***************************************************************************)
(* C10.  The correlation route returns its insufficient-data outcome and   *)
(* computes no correlation whenever the two series share fewer than 3      *)
(* periods, however many points each has on its own; with 3 or more common *)
(* periods it returns a correlation result.                                *)
(***************************************************************************)
C10_ThreeCommonPeriods ==
    CorrDone =>
        IF Cardinality(SharedPoints(Series1, Series2)) < 3
        THEN /\ corr_response.kind = "error"
             /\ corr_response.message = "Insufficient data for correlation analysis"
             /\ "correlation" \notin DOMAIN corr_response
        ELSE /\ corr_response.kind = "success"
             /\ "correlation" \in DOMAIN corr_response
             /\ corr_response.data_points = Cardinality(SharedPoints(Series1, Series2))

\* each series has 3 points of its own, 2 of them in common
C10_Witness ==
    /\ CorrDone
    /\ Len(Series1) >= 3
    /\ Len(Series2) >= 3
    /\ Cardinality(SharedPoints(Series1, Series2)) = 2
    /\ corr_response.kind = "error"

(***************************************************************************)
(* Vocabulary of the comparison properties.                                *)
(***************************************************************************)
CompareDone == op = "compare_repositories" /\ compare_response.kind = "success"

\* the entries of the reported comparison data
Compared == compare_response.comparison

\* the analysis entries of a metric (none or one)
AnalysisOf(metric) ==
    {i \in 1..Len(compare_response.analysis) : compare_response.analysis[i].metric = metric}

\* the repository has a non-empty series for the metric and no error
Usable(repo_data, metric) ==
    /\ ~GetError(repo_data)
    /\ repo_data.metrics[metric].present
    /\ repo_data.metrics[metric].series # <<>>

Ranked(repo, metric) ==
    \E a \in AnalysisOf(metric) :
        \E r \in 1..Len(compare_response.analysis[a].ranking) :
            compare_response.analysis[a].ranking[r].repository = repo

(***************************************************************************)
(* C4.  In the ranking, the current value of every ranked repository is    *)
(* the value at the greatest period of its series for the metric, whatever *)
(* the insertion order of the series, and its trend compares that value    *)
(* with the value at the least period.                                     *)
(***************************************************************************)
C4_CurrentIsLatestPeriod ==
    CompareDone =>
        \A a \in 1..Len(compare_response.analysis) :
            LET entry == compare_response.analysis[a]
            IN  \A r \in 1..Len(entry.ranking) :
                    \A i \in 1..Len(Compared) :
                        Compared[i].repo = entry.ranking[r].repository =>
                            LET series == Compared[i].data.metrics[entry.metric].series
                            IN  /\ entry.ranking[r].current = LatestValue(series)
                                /\ entry.ranking[r].trend =
                                      IF LatestValue(series) > EarliestValue(series)
                                      THEN "increasing" ELSE "decreasing"

(***************************************************************************)
(* C6.  Every repository without usable data for the ranked metric (fetch  *)
(* error, metric missing, or empty series) is left out of that metric's    *)
(* ranking and is nevertheless reported as failed: its comparison entry    *)
(* carries an error and the summary counts it as failed.  For              *)
(* {A: current = 30, B: no data} the ranking is A at rank 1, and           *)
(* average_all = 30.                                                       *)
(***************************************************************************)
C6_NoDataIsReportedFailed ==
    CompareDone =>
        /\ \A i \in 1..Len(Compared) :
              ~Usable(Compared[i].data, "activity") =>
                  /\ ~Ranked(Compared[i].repo, "activity")
                  /\ Compared[i].data.has_error
        /\ compare_response.summary.failed >=
              Cardinality({i \in 1..Len(Compared) : ~Usable(Compared[i].data, "activity")})
        /\ compare_request = Scenario6 =>
              /\ Len(compare_response.analysis) = 1
              /\ Len(compare_response.analysis[1].ranking) = 1
              /\ compare_response.analysis[1].ranking[1].repository = "a/x"
              /\ compare_response.analysis[1].ranking[1].rank = 1
              /\ compare_response.analysis[1].summary.average_all = <<30, 1>>

(***************************************************************************)
(* C5.  The prediction route fits the regression on the historical values  *)
(* ordered by ascending period: every insertion order of a period-to-value *)
(* mapping yields the forecast of the mapping inserted in period order.    *)
(***************************************************************************)
PredictDone == op = "predict_metric" /\ predict_response.kind = "success"

C5_ForecastOnPeriodOrder ==
    PredictDone =>
        predict_response.values =
            predict_linear_trend(Values(ByPeriod(predict_request.history.series)),
                                 predict_response.periods)

(***************************************************************************)
(* C11.  The alignment of the correlation route yields two value sequences *)
(* of equal length holding exactly the values at the periods both series   *)
(* have, in ascending period order, position i of each belonging to the    *)
(* same period; a period only one series has contributes nothing, and      *)
(* data_points is the number of common periods.                            *)
(***************************************************************************)
\* the k-th smallest period that d1 and d2 both have
SharedPeriodAt(d1, d2, k) ==
    CHOOSE p \in KeySet(d1) \cap KeySet(d2) :
        Cardinality({q \in KeySet(d1) \cap KeySet(d2) : q < p}) = k - 1

\* the values of d at the periods it shares with other, by ascending period
ValuesOnShared(d, other) ==
    [k \in 1..Cardinality(SharedPoints(d, other)) |-> Get(d, SharedPeriodAt(d, other, k))]

C11_AlignmentByPeriod ==
    (CorrDone /\ Cardinality(SharedPoints(Series1, Series2)) >= 3) =>
        LET common_dates == CommonDates(Series1, Series2)
            values1 == AlignedValues(Series1, common_dates)
            values2 == AlignedValues(Series2, common_dates)
        IN  /\ Len(values1) = Len(values2)
            /\ Len(values1) = Cardinality(SharedPoints(Series1, Series2))
            /\ values1 = ValuesOnShared(Series1, Series2)
            /\ values2 = ValuesOnShared(Series2, Series1)
            /\ corr_response.kind = "success"
            /\ corr_response.data_points = Len(values1)
            /\ corr_response.correlation =
                  calculate_correlation(ValuesOnShared(Series1, Series2),
                                        ValuesOnShared(Series2, Series1))

\* metric1 arrives latest period first and has a period metric2 lacks; the
\* values in stored order would correlate differently
C11_Witness ==
    /\ CorrDone
    /\ Len(Series1) = 4
    /\ Len(Series2) = 3
    /\ ~InInsertionOrder(Series1)
    /\ Cardinality(SharedPoints(Series1, Series2)) = 3
    /\ corr_response.kind = "success"
    /\ corr_response.data_points = 3
    /\ ValuesOnShared(Series1, Series2)
          # Values(SelectSeq(Series1, LAMBDA pt : pt.period \in KeySet(Series2)))
    /\ corr_response.correlation # 0

(***************************************************************************)
(* C12.  When either aligned value sequence is constant (standard          *)
(* deviation 0), calculate_correlation returns 0 as a value, with no error *)
(* outcome, and the result is interpreted as "No significant correlation". *)
(***************************************************************************)
ConstantValues(vs) == \A i, j \in 1..Len(vs) : vs[i] = vs[j]

C12_ConstantGivesZero ==
    /\ (/\ op = "calculate_correlation"
        /\ Len(Series1) = Len(Series2)
        /\ Len(Series1) >= 2
        /\ (ConstantValues(Values(Series1)) \/ ConstantValues(Values(Series2)))) =>
          correlation = 0
    /\ (/\ CorrDone
        /\ Cardinality(SharedPoints(Series1, Series2)) >= 3
        /\ \/ ConstantValues(ValuesOnShared(Series1, Series2))
           \/ ConstantValues(ValuesOnShared(Series2, Series1))) =>
          /\ corr_response.kind = "success"
          /\ corr_response.correlation = 0
          /\ corr_response.interpretation = "No significant correlation"

\* one series constant on the shared periods, the other one not
C12_Witness ==
    /\ CorrDone
    /\ Cardinality(SharedPoints(Series1, Series2)) >= 3
    /\ ConstantValues(ValuesOnShared(Series1, Series2))
    /\ ~ConstantValues(ValuesOnShared(Series2, Series1))
    /\ ~ConstantValues(Values(Series1))
    /\ corr_response.kind = "success"
    /\ corr_response.correlation = 0
    /\ corr_response.interpretation = "No significant correlation"

(***************************************************************************)
(* C13.  interpret_correlation maps every r to exactly one label by        *)
(* first-match-wins strict thresholds: r > 0.7 strong positive;            *)
(* 0.3 < r <= 0.7 moderate positive; 0.1 < r <= 0.3 weak positive;         *)
(* -0.1 < r <= 0.1 no significant correlation; -0.3 < r <= -0.1 weak       *)
(* negative; -0.7 < r <= -0.3 moderate negative; r <= -0.7 strong          *)
(* negative.  A value equal to a threshold gets the label of the band      *)
(* below it.                                                               *)
(***************************************************************************)
InterpretDone == op = "interpret_correlation"

C13_InterpretationBands ==
    InterpretDone =>
        LET r     == correlation
            label == corr_response.interpretation
        IN  /\ label \in {"Strong positive correlation", "Moderate positive correlation",
                          "Weak positive correlation", "No significant correlation",
                          "Weak negative correlation", "Moderate negative correlation",
                          "Strong negative correlation"}
            /\ label = "Strong positive correlation"   <=> r > 7000
            /\ label = "Moderate positive correlation" <=> (3000 < r /\ r <= 7000)
            /\ label = "Weak positive correlation"     <=> (1000 < r /\ r <= 3000)
            /\ label = "No significant correlation"    <=> (-1000 < r /\ r <= 1000)
            /\ label = "Weak negative correlation"     <=> (-3000 < r /\ r <= -1000)
            /\ label = "Moderate negative correlation" <=> (-7000 < r /\ r <= -3000)
            /\ label = "Strong negative correlation"   <=> r <= -7000

\* r = -0.7 exactly takes the label of the band below the threshold
C13_Witness ==
    /\ InterpretDone
    /\ correlation = -7000
    /\ corr_response.interpretation = "Strong negative correlation"

(***************************************************************************)
(* C14.  Volatility is the sample standard deviation of the returns        *)
(* (v[i] - v[i-1]) / v[i-1] over the steps whose prior value v[i-1] is     *)
(* non-zero only: a step with a zero prior value contributes no return at  *)
(* all, and with fewer than 2 such returns the volatility is 0.            *)
(***************************************************************************)
\* the values of d by ascending period
OrderedValues(d) == Values(ByPeriod(d))

\* the returns of v as pairs <<change, prior>>, steps with prior 0 left out
RECURSIVE ValidReturns(_)
ValidReturns(v) ==
    IF Len(v) < 2 THEN <<>>
    ELSE (IF v[1] # 0 THEN << <<v[2] - v[1], v[1]>> >> ELSE <<>>) \o ValidReturns(Tail(v))

\* round(10000 * stdev(returns)) for at least 2 returns, else 0
VolatilityOf(rs) ==
    LET den  == Lcm([j \in 1..Len(rs) |-> rs[j][2]])
        nums == [j \in 1..Len(rs) |-> rs[j][1] * Sign(rs[j][2]) * (den \div Abs(rs[j][2]))]
    IN  IF Len(rs) < 2 THEN 0 ELSE StdevScaled(nums, den, 10000)

C14_VolatilitySkipsZeroPrior ==
    (TrendDone /\ Len(trend_data) >= 2) =>
        LET rs == ValidReturns(OrderedValues(trend_data))
        IN  /\ trend_result.trend.volatility = VolatilityOf(rs)
            /\ Len(rs) < 2 => trend_result.trend.volatility = 0

\* a zero prior value among four points, two valid returns that differ
C14_Witness ==
    /\ TrendDone
    /\ Len(trend_data) = 4
    /\ \E i \in 1..3 : OrderedValues(trend_data)[i] = 0
    /\ Len(ValidReturns(OrderedValues(trend_data))) = 2
    /\ trend_result.trend.volatility > 0

(***************************************************************************)
(* C15.  For every series in which all periods carry the same value c (any *)
(* c, zero included, any length >= 2) the reported volatility is exactly   *)
(* 0.                                                                      *)
(***************************************************************************)
C15_ConstantSeriesVolatilityZero ==
    (TrendDone /\ Len(trend_data) >= 2 /\ ConstantValues(Values(trend_data))) =>
        /\ trend_result.kind = "trend"
        /\ trend_result.trend.volatility = 0

\* the all-zero series, where no step has a non-zero prior value
C15_Witness ==
    /\ TrendDone
    /\ Len(trend_data) >= 3
    /\ ConstantValues(Values(trend_data))
    /\ trend_data[1].value = 0
    /\ ~InInsertionOrder(trend_data)
    /\ trend_result.kind = "trend"
    /\ trend_result.statistics.range = 0
    /\ trend_result.trend.volatility = 0

(***************************************************************************)
(* C16.  For every perfectly linear sequence a, a+d, ..., a+(n-1)d with    *)
(* n >= 2 and every periods >= 1, predict_linear_trend returns the         *)
(* continuation max(a+n*d, 0), ..., max(a+(n+periods-1)*d, 0) (to 2        *)
(* decimals); [1,2,3,4,5,6] with periods 2 gives [7.0, 8.0].               *)
(***************************************************************************)
ForecastDone == op = "predict_linear_trend"

\* the values predict_linear_trend was called on
ForecastInput == Values(predict_request.history.series)

IsLinear(v) == \A i \in 2..Len(v) : v[i] - v[i - 1] = v[2] - v[1]

C16_LinearContinuation ==
    /\ (ForecastDone /\ Len(ForecastInput) >= 2 /\ IsLinear(ForecastInput)
            /\ predict_request.periods >= 1) =>
          LET v == ForecastInput
              n == Len(v)
              d == v[2] - v[1]
          IN  prediction =
                  [k \in 1..predict_request.periods |->
                      100 * Max2(v[1] + (n + k - 1) * d, 0)]
    /\ (ForecastDone /\ ForecastInput = <<1, 2, 3, 4, 5, 6>> /\ predict_request.periods = 2) =>
          prediction = <<700, 800>>

\* a falling line that reaches zero inside the forecast: 6, 5, ..., 1 then
\* 0 and the clamped values
C16_Witness ==
    /\ ForecastDone
    /\ ForecastInput = <<6, 5, 4, 3, 2, 1>>
    /\ predict_request.periods = 2
    /\ prediction = <<0, 0>>

(***************************************************************************)
(* C17.  For every input sequence of any length n >= 0 and every           *)
(* periods >= 1, predict_linear_trend returns exactly `periods` values.    *)
(***************************************************************************)
C17_ForecastLength ==
    (ForecastDone /\ predict_request.periods >= 1) =>
        /\ Len(prediction) = predict_request.periods
        /\ DOMAIN prediction = 1..predict_request.periods

\* the empty input and more periods than the route would allow
C17_Witness ==
    /\ ForecastDone
    /\ predict_request.history.present
    /\ ForecastInput = <<>>
    /\ predict_request.periods = 13
    /\ Len(prediction) = 13

(***************************************************************************)
(* C18.  Every value predict_linear_trend returns for n >= 2 input values  *)
(* is max(slope*i + intercept, 0) for its future index i (to 2 decimals),  *)
(* hence non-negative: where the fitted line is below zero the forecast is *)
(* 0, never negative.                                                      *)
(***************************************************************************)
\* 2 * (x - x_mean) for the x of position j, x = 0 .. n-1
CenteredX(n, j) == 2 * (j - 1) - (n - 1)

\* the fitted line at index i as a fraction <<num, den>>, den > 0:
\*   y_mean + slope * (i - x_mean),
\*   slope = sum((x - x_mean) * (y - y_mean)) / sum((x - x_mean)^2)
\* the sums of the fit, which do not depend on the index
LineSums(y) ==
    LET n  == Len(y)
        sy == Sum(y)
    IN  [n   |-> n,
         sy  |-> sy,
         sxx |-> Sum([j \in 1..n |-> CenteredX(n, j) * CenteredX(n, j)]),
         sxy |-> Sum([j \in 1..n |-> CenteredX(n, j) * (n * y[j] - sy)])]

LineAt(s, i) == <<s.sy * s.sxx + s.sxy * (2 * i - s.n + 1), s.n * s.sxx>>

FittedLine(y, i) == LineAt(LineSums(y), i)

C19_ShortInputRepeats ==
    (ForecastDone /\ Len(ForecastInput) < 2 /\ predict_request.periods >= 1) =>
        prediction =
            [k \in 1..predict_request.periods |->
                IF ForecastInput = <<>> THEN 0 ELSE 100 * ForecastInput[1]]

\* a single non-zero value
C19_Witness ==
    /\ ForecastDone
    /\ ForecastInput = <<3>>
    /\ predict_request.periods = 2
    /\ prediction = <<300, 300>>

(***************************************************************************)
(* C20.  The ranking lists the qualifying repositories in descending order *)
(* of current; repositories with equal current keep their input            *)
(* (iteration) order; the ranks are 1..k in list order with no gaps or     *)
(* repeats, even among ties.  For {A: current = 100, B: current = 50} the  *)
(* ranking is [A rank 1, B rank 2] and average_all = 75.                   *)
(***************************************************************************)
\* the position of a repository in the iteration order of the compared data
PositionOf(repo) == CHOOSE i \in 1..Len(Compared) : Compared[i].repo = repo

C20_RankingOrder ==
    CompareDone =>
        /\ \A a \in 1..Len(compare_response.analysis) :
              LET entry   == compare_response.analysis[a]
                  ranking == entry.ranking
                  k       == Len(ranking)
              IN  /\ k >= 1
                  /\ \A i \in 1..k : ranking[i].rank = i
                  /\ \A i \in 1..(k - 1) :
                        /\ ranking[i].current >= ranking[i + 1].current
                        /\ ranking[i].current = ranking[i + 1].current =>
                              PositionOf(ranking[i].repository)
                                  < PositionOf(ranking[i + 1].repository)
                  /\ \A i, j \in 1..k : ranking[i].repository = ranking[j].repository => i = j
                  /\ {ranking[i].repository : i \in 1..k}
                        = {Compared[i].repo : i \in {c \in 1..Len(Compared) :
                                                       Usable(Compared[c].data, entry.metric)}}
                  /\ entry.summary.top_repository = ranking[1].repository
                  /\ (k = 2 /\ ranking[1].current = 100 /\ ranking[2].current = 50) =>
                        entry.summary.average_all = <<75, 1>>
        /\ compare_request = TwoMetrics =>
              /\ Len(compare_response.analysis) = 2
              /\ compare_response.analysis[1].metric = "activity"
              /\ compare_response.analysis[1].ranking[1].repository = "a/x"
              /\ compare_response.analysis[1].ranking[1].rank = 1
              /\ compare_response.analysis[1].ranking[2].repository = "b/y"
              /\ compare_response.analysis[1].ranking[2].rank = 2
              /\ compare_response.analysis[1].summary.average_all = <<75, 1>>
              /\ compare_response.analysis[2].ranking[1].repository = "b/y"

\* two repositories tie: the one asked for first, alphabetically the later,
\* is ranked 1 and the other 2
C20_Witness ==
    /\ CompareDone
    /\ compare_request.repositories = <<"c/z", "a/x">>
    /\ Len(compare_response.analysis) = 1
    /\ Len(compare_response.analysis[1].ranking) = 2
    /\ compare_response.analysis[1].ranking[1].current
          = compare_response.analysis[1].ranking[2].current
    /\ compare_response.analysis[1].ranking[1].repository = "c/z"
    /\ compare_response.analysis[1].ranking[1].rank = 1
    /\ compare_response.analysis[1].ranking[2].repository = "a/x"
    /\ compare_response.analysis[1].ranking[2].rank = 2

(***************************************************************************)
(* C21.  In every ranking result the summary's total (total_repositories)  *)
(* is the number of rows of the ranking and the number of qualifying       *)
(* repositories, its top entry (top_repository) is the repository of the   *)
(* rank-1 row, and average_all is the arithmetic mean of the rows' current *)
(* values.                                                                 *)
(***************************************************************************)
\* the repositories of the compared data that qualify for a metric
Qualifying(metric) == {c \in 1..Len(Compared) : Usable(Compared[c].data, metric)}

C21_RankingSummary ==
    CompareDone =>
        \A a \in 1..Len(compare_response.analysis) :
            LET entry   == compare_response.analysis[a]
                ranking == entry.ranking
                total   == Sum([i \in 1..Len(ranking) |-> ranking[i].current])
            IN  /\ entry.summary.total_repositories = Len(ranking)
                /\ entry.summary.total_repositories = Cardinality(Qualifying(entry.metric))
                /\ \E i \in 1..Len(ranking) :
                      ranking[i].rank = 1 /\ entry.summary.top_repository = ranking[i].repository
                /\ entry.summary.average_all[2] > 0
                /\ entry.summary.average_all[1] * Len(ranking)
                      = total * entry.summary.average_all[2]

\* two ranked repositories, the first with an average other than its current
\* value, so that the mean of the current values (75) is told apart from
\* the mean of the averages
C21_Witness ==
    /\ CompareDone
    /\ Len(compare_response.analysis) = 1
    /\ Len(compare_response.analysis[1].ranking) = 2
    /\ compare_response.analysis[1].ranking[1].average # <<100, 1>>
    /\ compare_response.analysis[1].ranking[1].current = 100
    /\ compare_response.analysis[1].ranking[2].current = 50
    /\ compare_response.analysis[1].summary.average_all = <<75, 1>>
    /\ compare_response.analysis[1].summary.total_repositories = 2
    /\ compare_response.analysis[1].summary.top_repository
          = compare_response.analysis[1].ranking[1].repository

(***************************************************************************)
(* C22.  When no repository qualifies for a requested metric (every one    *)
(* has an error, lacks the metric or has an empty series), the analysis    *)
(* still has a result for that metric, with an empty ranking, no top       *)
(* repository and a total of 0.                                            *)
(***************************************************************************)
C22_NoQualifierStillReported ==
    CompareDone =>
        \A metric \in {"activity", "openrank"} :
            Qualifying(metric) = {} =>
                \E a \in AnalysisOf(metric) :
                    LET entry == compare_response.analysis[a]
                    IN  /\ entry.ranking = <<>>
                        /\ entry.summary.total_repositories = 0

(***************************************************************************)
(* C26.  A prediction response has as many dates as values, namely the     *)
(* requested number of periods capped at 12; the dates are the calendar    *)
(* months that follow the latest historical period one by one, strictly    *)
(* ascending, month 12 being followed by month 1 of the next year.         *)
(***************************************************************************)
\* the calendar month after a period
NextMonth(period) ==
    IF period % 100 = 12 THEN (period \div 100 + 1) * 100 + 1 ELSE period + 1

C26_PredictionDates ==
    PredictDone =>
        LET dates  == predict_response.dates
            values == predict_response.values
        IN  /\ Len(dates) = Len(values)
            /\ Len(dates) = Min2(predict_request.periods, 12)
            /\ Len(dates) >= 1 =>
                  dates[1] = NextMonth(LatestPeriod(predict_request.history.series))
            /\ \A i \in 2..Len(dates) :
                  /\ dates[i] = NextMonth(dates[i - 1])
                  /\ dates[i] > dates[i - 1]

\* 13 periods asked on a history whose latest period 2024-03 was inserted
\* first: twelve dates, from 2024-04 over the turn of the year to 2025-03
C26_Witness ==
    /\ PredictDone
    /\ predict_request.periods = 13
    /\ predict_request.history.series[1].period = 202403
    /\ Len(predict_response.dates) = 12
    /\ Len(predict_response.values) = 12
    /\ predict_response.dates[1] = 202404
    /\ predict_response.dates[9] = 202412
    /\ predict_response.dates[10] = 202501
    /\ predict_response.dates[12] = 202503

(***************************************************************************)
(* C27.  For two value lists of equal length n >= 2 the coefficient        *)
(* returned by calculate_correlation lies in the closed interval [-1, 1]   *)
(* (in ten-thousandths: between -10000 and 10000).                         *)
(***************************************************************************)
C27_CorrelationWithinUnitInterval ==
    (/\ op = "calculate_correlation"
     /\ Len(Series1) = Len(Series2)
     /\ Len(Series1) >= 2) =>
        /\ correlation >= -10000
        /\ correlation <= 10000

(***************************************************************************)
(* C29.  In every successful compare response, repeats among the           *)
(* repository names allowed, summary.successful + summary.failed equals    *)
(* summary.total_repositories, and the repositories counted as failed are  *)
(* exactly those whose fetch raised.                                       *)
(***************************************************************************)
\* the repositories with a fetch that raised
FetchRaised ==
    {compare_request.repositories[k] :
        k \in {j \in 1..Len(compare_request.repositories) : compare_request.fetches[j].raises}}

\* the repositories the summary counts as failed
CountedFailed == {Compared[i].repo : i \in {j \in 1..Len(Compared) : GetError(Compared[j].data)}}

C29_SummaryCountsAddUp ==
    CompareDone =>
        /\ compare_response.summary.successful + compare_response.summary.failed
              = compare_response.summary.total_repositories
        /\ compare_response.summary.failed = Cardinality(CountedFailed)
        /\ CountedFailed = FetchRaised

(***************************************************************************)
(* C28.  In every trend result the direction is the band that contains     *)
(* the reported percentage_change (the value rounded to 2 decimals, here   *)
(* in hundredths): stable exactly when the reported value is 0, a strong   *)
(* direction only when its absolute value exceeds 5, and its sign agrees   *)
(* with the increase or decrease of the direction.                         *)
(***************************************************************************)
Reported == trend_result.trend.percentage_change

Direction == trend_result.trend.direction

C28_DirectionMatchesReported ==
    (TrendDone /\ Len(trend_data) >= 2) =>
        /\ Direction = "stable" <=> Reported = 0
        /\ Direction \in {"strong_increase", "strong_decrease"} => Abs(Reported) > 500
        /\ Direction \in {"strong_increase", "slight_increase"} => Reported > 0
        /\ Direction \in {"strong_decrease", "slight_decrease"} => Reported < 0

(***************************************************************************)
(* C28 amended.  The direction is the band that contains the unrounded     *)
(* percentage change p, and the reported percentage_change is p rounded to *)
(* 2 decimals, so the reported value lies in the closure of the band:      *)
(* stable implies a reported 0 (a reported 0 also goes with a slight       *)
(* direction when 0 < |p| < 0.005), a strong direction implies             *)
(* |reported| >= 5, and the reported sign never contradicts the direction. *)
(***************************************************************************)
C28_DirectionMatchesUnrounded ==
    (TrendDone /\ Len(trend_data) >= 2) =>
        LET first == EarliestValue(trend_data)
            last  == LatestValue(trend_data)
            \* p = num / den with den > 0
            num   == IF first # 0 THEN 100 * (last - first) ELSE 0
            den   == IF first # 0 THEN Abs(first) ELSE 1
        IN  /\ 2 * Abs(Reported * den - 100 * num) <= den
            /\ Direction = "stable" <=> num = 0
            /\ Direction = "strong_increase" <=> num > 5 * den
            /\ Direction = "strong_decrease" <=> num < -5 * den
            /\ Direction \in {"strong_increase", "slight_increase"} <=> num > 0
            /\ Direction \in {"strong_decrease", "slight_decrease"} <=> num < 0
            /\ Direction = "stable" => Reported = 0
            /\ Direction = "strong_increase" => Reported >= 500
            /\ Direction = "strong_decrease" => Reported <= -500
            /\ Direction \in {"strong_increase", "slight_increase"} => Reported >= 0
            /\ Direction \in {"strong_decrease", "slight_decrease"} => Reported <= 0

\* a change of 0.004999 percent: reported as 0.0 with a slight increase
C28_Witness ==
    /\ TrendDone
    /\ Len(trend_data) = 2
    /\ EarliestValue(trend_data) = 20001
    /\ LatestValue(trend_data) = 20002
    /\ Reported = 0
    /\ Direction = "slight_increase"

(***************************************************************************)
(* C23.  On every input of finite numeric values, however sparse or        *)
(* degenerate, an analyzer ends with a defined result or the               *)
(* insufficient-data outcome and never raises: analyze_trend_data returns  *)
(* the empty result, insufficient_data or a trend result.                  *)
(***************************************************************************)
C23_NeverRaises ==
    TrendDone => trend_result.kind \in {"empty", "insufficient_data", "trend"}

(***************************************************************************)
(* C25.  Whatever each remote fetch does (success, a status other than     *)
(* 200, an exception), get_repo_core_data returns, without raising, a      *)
(* record that has all of repo_name, primary_language, description,        *)
(* openrank, contributor_count and activity_score, repo_name being         *)
(* "owner/repo".                                                           *)
(***************************************************************************)
CoreDone == op = "get_repo_core_data"

\* the fetch of a metric failed: an exception or a status other than 200
FetchFailed(metric) ==
    core_request.metrics[metric].raises \/ core_request.metrics[metric].status_code # 200

C25_CoreRecordComplete ==
    CoreDone =>
        /\ core_data # Raised
        /\ {"repo_name", "primary_language", "description", "openrank",
            "contributor_count", "activity_score"} \subseteq DOMAIN core_data
        /\ core_data.repo_name = core_request.owner \o "/" \o core_request.repo
        /\ core_data.primary_language \in {"Unknown", "C", "Python", "Go"}
        /\ core_data.description.kind \in {"string", "none"}

\* every fetch fails: the three metrics by an exception, a 404 and a 404,
\* the two GitHub calls by an exception and a 403
C25_Witness ==
    /\ CoreDone
    /\ core_request.owner = "X-lab2017"
    /\ core_request.metrics["openrank"] = HttpRaises("timeout")
    /\ core_request.metrics["activity"] = HttpResponse(404, JsonOther)
    /\ core_request.metrics["participants"] = HttpResponse(404, JsonOther)
    /\ core_request.languages = HttpRaises("timeout")
    /\ core_request.info = HttpResponse(403, JsonOther)
    /\ core_data.repo_name = "X-lab2017/open-digger"
    /\ core_data.primary_language = "Unknown"
    /\ core_data.description = Str("No description available")

(***************************************************************************)
(* C30.  An error-tagged fetch result is never reported as a metric value: *)
(* openrank, contributor_count and activity_score are each the number at   *)
(* the greatest period of the fetched series, or None when the series is   *)
(* empty or missing or its fetch failed.                                   *)
(***************************************************************************)
\* the field of the record that reports a metric
CoreField(metric) ==
    IF metric = "openrank" THEN core_data.openrank
    ELSE IF metric = "participants" THEN core_data.contributor_count
    ELSE core_data.activity_score

\* the fetched series of a metric, empty when nothing usable was fetched
FetchedSeries(metric) ==
    IF FetchFailed(metric) \/ ~core_request.metrics[metric].json.is_dict THEN <<>>
    ELSE core_request.metrics[metric].json.items

C30_ErrorNeverReported ==
    CoreDone =>
        \A metric \in {"openrank", "participants", "activity"} :
            LET series == FetchedSeries(metric)
            IN  IF series = <<>> THEN CoreField(metric) = None
                ELSE /\ CoreField(metric).kind = "number"
                     /\ \E i \in 1..Len(series) :
                           /\ \A j \in 1..Len(series) :
                                 series[j].key.period <= series[i].key.period
                           /\ CoreField(metric) = series[i].value

(***************************************************************************)
(* C24.  Analyzer calls leave the shared series unchanged and share no     *)
(* mutable state: under every interleaving of the steps of concurrent      *)
(* calls, each call that has returned has the result the analyzer gives    *)
(* when it runs alone on the series, and no step changes the series.       *)
(***************************************************************************)
\* the result of the analyzer run alone on the series
Alone(fn, data) ==
    IF fn = "analyze_trend_data" THEN analyze_trend_data(data)
    ELSE IF fn = "predict_linear_trend" THEN predict_linear_trend(Values(data), 2)
    ELSE IF fn = "calculate_correlation"
         THEN calculate_correlation(Values(data), Values(ByPeriod(data)))
    ELSE analyze_comparison(OneRepository(data), <<"activity">>)

ReturnedAsAlone ==
    \A c \in DOMAIN calls :
        calls[c].pc = "returned" => calls[c].result = Alone(calls[c].fn, trend_data)

C24_ConcurrentCallsIndependent ==
    /\ []ReturnedAsAlone
    /\ [][trend_data' = trend_data]_vars

\* a trend analysis has returned while a prediction on the same series,
\* inserted out of period order, holds other local variables in mid-call
C24_Witness ==
    /\ Len(calls) = NumCalls
    /\ calls[1].fn = "analyze_trend_data"
    /\ calls[1].pc = "returned"
    /\ calls[1].result.kind = "trend"
    /\ calls[2].fn = "predict_linear_trend"
    /\ calls[2].pc = "read"
    /\ frames[1] # frames[2]
    /\ ~InInsertionOrder(trend_data)

====
